---- MODULE Spec2Model ----
(***************************************************************************)
(* go-filecrypt: the encrypted container file.                             *)
(*                                                                         *)
(* The model follows pkg/container/file_wrapper.go (ContainerFile), the    *)
(* header codec of internal/container/file_header.go, the key slot of      *)
(* internal/container/slots.go and the cipher wrappers of internal/cipher. *)
(* Files, keys and ciphertexts are sequences of bytes (0..255).  The       *)
(* primitives of the Go standard library (AES-GCM, AES-CTR, HMAC-SHA-256,  *)
(* HKDF) are replaced by small byte functions with the same shape: a       *)
(* keyed XOR stream and a keyed tag that changes with every byte of its    *)
(* input.                                                                  *)
(***************************************************************************)
EXTENDS Integers, Sequences, FiniteSets, TLC

(***************************************************************************)
(* Bounds of the model.                                                    *)
(***************************************************************************)
\* AddKeySlot is not taken once the in-memory slot list has this many entries.
MaxSlots == 2
\* Plaintexts handed to EncryptStream have 0..MaxPlainLen bytes.
MaxPlainLen == 1
MaxSrcLen == 4
MaxTail == 2
MaxStreamReads == 2
MaxStreamCalls == 1
MaxStreamSlots == 1

(***************************************************************************)
(* Program constants.                                                      *)
(***************************************************************************)
containerCiphertextOffset == 4096
HeaderRegionSize == 4096
authKeySize == 32
bufferSize == 16384
streamBufferSize == 4096
\* The buffer that io.Discard reads into (io.Copy to io.Discard).
discardBufferSize == 8192
RootKeySize == 32
Sha256Size == 32
AESBlockSize == 16
GCMNonceSize == 12
GCMTagSize == AESBlockSize
EncAlgAESCTR128 == 0
EncAlgAESCTR256 == 1
EncAlgEnd == 2
SlotKeyAlgAESGCM128 == 0
SlotKeyAlgEnd == 1
SlotFlagDestroyed == 32768
MaxSlotContent == 65535
MaxHeaderSlots == 255
VersionMajor == 1
VersionMinor == 0
FileMagicNumber == <<67, 82, 80, 84>>

(***************************************************************************)
(* Bytes.                                                                  *)
(***************************************************************************)
Min(a, b) == IF a < b THEN a ELSE b
Max(a, b) == IF a > b THEN a ELSE b

Zeros(n) == [i \in 1..n |-> 0]

\* s[from..to] with Go's half-open indices: s[lo:hi], 0-based.
Slice(s, lo, hi) == SubSeq(s, lo + 1, hi)

RECURSIVE Xor8(_, _)
Xor8(a, b) ==
    IF a = 0 THEN b
    ELSE IF b = 0 THEN a
    ELSE ((a + b) % 2) + 2 * Xor8(a \div 2, b \div 2)

\* binary.BigEndian on a uint16
\* The other byte order.
LE16(v) == <<v % 256, (v \div 256) % 256>>
BE16(v) == <<(v \div 256) % 256, v % 256>>
ReadBE16(s, off) == s[off + 1] * 256 + s[off + 2]

\* A position-weighted checksum modulo a prime: changing one byte, or the
\* length, of a sequence shorter than 257 bytes changes it.
RECURSIVE WeightedSumRange(_, _, _)
WeightedSumRange(s, lo, hi) ==
    IF lo > hi THEN 0
    ELSE IF lo = hi THEN (lo * (s[lo] + 1)) % 257
    ELSE (WeightedSumRange(s, lo, (lo + hi) \div 2)
          + WeightedSumRange(s, (lo + hi) \div 2 + 1, hi)) % 257

WeightedSum(s, i) == WeightedSumRange(s, i, Len(s))

Digest(s) == (WeightedSum(s, 1) + Len(s)) % 257

(***************************************************************************)
(* internal/cipher: utilities and the AES-GCM wrappers.                    *)
(***************************************************************************)
\* "No byte sequence": a sequence that is not one of bytes.  As a key it
\* is Go's nil slice, which AESVerifyKeySize tells from an empty one; <<>> is
\* the empty slice that is not nil.
None == <<0 - 1>>

AESVerifyKeySize(key) ==
    IF key = None THEN "ErrKeyMissing"
    ELSE IF Len(key) # 16 /\ Len(key) # 24 /\ Len(key) # 32 THEN "ErrAESKeySizeMismatch"
    ELSE "nil"

\* Byte i (1-based) of the key stream of a block cipher keyed with key and
\* started from the nonce / IV iv.
KeyStreamByte(key, iv, i) ==
    (key[((i - 1) % Len(key)) + 1] * 7 + iv[((i - 1) % Len(iv)) + 1] * 11 + i) % 256

\* cipher.Stream.XORKeyStream over a whole buffer, the stream being at
\* position pos (bytes already produced).
XORKeyStream(key, iv, pos, data) ==
    [i \in 1..Len(data) |-> Xor8(data[i], KeyStreamByte(key, iv, pos + i))]

\* A keyed tag of n bytes over data: every byte depends on the key, the first
\* two carry the digest of the data.  An empty key is a key of zero bytes,
\* as HMAC pads its key with zeros.
KeyedTag(key, data, n) ==
    LET h == Digest(data)
    IN  [j \in 1..n |->
            Xor8(IF Len(key) = 0 THEN 0 ELSE key[((j - 1) % Len(key)) + 1],
                 IF j = 1 THEN h \div 256 ELSE (h + j) % 256)]

\* cipher.NewGCMWithRandomNonce(...).Seal: nonce || ciphertext || tag, the
\* nonce drawn at random (the argument nonce is the draw).
AESGCMEncryptDirect(key, plaintext, nonce) ==
    LET e == AESVerifyKeySize(key)
        ct == XORKeyStream(key, nonce, 0, plaintext)
    IN  IF e # "nil" THEN [err |-> e, out |-> <<>>]
        ELSE [err |-> "nil",
              out |-> nonce \o ct \o KeyedTag(key, nonce \o ct, GCMTagSize)]

\* An Open that does not compare the tag.
AESGCMDecryptDirectNoTag(key, ciphertext) ==
    LET e == AESVerifyKeySize(key)
        n == Len(ciphertext)
        nonce == Slice(ciphertext, 0, GCMNonceSize)
        ct == Slice(ciphertext, GCMNonceSize, n - GCMTagSize)
    IN  IF e # "nil" THEN [err |-> e, out |-> <<>>]
        ELSE IF n < GCMNonceSize + GCMTagSize
            THEN [err |-> "ErrAeadOpen", out |-> <<>>]
        ELSE [err |-> "nil", out |-> XORKeyStream(key, nonce, 0, ct)]

\* cipher.NewGCMWithRandomNonce(...).Open of nonce || ciphertext || tag.
AESGCMDecryptDirect(key, ciphertext) ==
    LET e == AESVerifyKeySize(key)
        n == Len(ciphertext)
        nonce == Slice(ciphertext, 0, GCMNonceSize)
        ct == Slice(ciphertext, GCMNonceSize, n - GCMTagSize)
        tag == Slice(ciphertext, n - GCMTagSize, n)
    IN  IF e # "nil" THEN [err |-> e, out |-> <<>>]
        ELSE IF n < GCMNonceSize + GCMTagSize
            THEN [err |-> "ErrAeadOpen", out |-> <<>>]
        ELSE IF tag # KeyedTag(key, nonce \o ct, GCMTagSize)
            THEN [err |-> "ErrAeadOpen", out |-> <<>>]
        ELSE [err |-> "nil", out |-> XORKeyStream(key, nonce, 0, ct)]

\* WipeBufferSecure: the buffer keeps its length, every byte becomes zero.
WipeBufferSecure(buf) == Zeros(Len(buf))

(***************************************************************************)
(* pkg/types: algorithm identifiers.                                       *)
(***************************************************************************)
\* EncryptionAlgorithm.KeySize and SlotKeyAlgorithm.KeySize: the default
\* branch of the switch panics, and "panic" stands for it in place of a size.
EncKeySize(alg) ==
    IF alg = EncAlgAESCTR128 THEN 16
    ELSE IF alg = EncAlgAESCTR256 THEN 24
    ELSE "panic"
SlotKeySize(alg) == IF alg = SlotKeyAlgAESGCM128 THEN 16 ELSE "panic"

(***************************************************************************)
(* internal/container/slots.go: the key slot.                              *)
(***************************************************************************)
NoSlot == [SlotKeyAlgorithm |-> 0, Flags |-> 0, Size |-> 0, SlotContent |-> <<>>]

\* A constructor that leaves the check of the key size to AES.
NewContainerKeySlotAnyAESKey(alg, flags, rootKey, slotKey, nonce) ==
    LET enc == AESGCMEncryptDirect(slotKey, rootKey, nonce)
    IN  IF alg >= SlotKeyAlgEnd
            THEN [err |-> "ErrUnsupportedSlotAlgo", slot |-> NoSlot]
        ELSE IF Len(rootKey) = 0 \/ Len(slotKey) = 0
            THEN [err |-> "ErrParameterMissing", slot |-> NoSlot]
        ELSE IF enc.err # "nil"
            THEN [err |-> enc.err, slot |-> NoSlot]
        ELSE [err |-> "nil",
              slot |-> [SlotKeyAlgorithm |-> alg, Flags |-> flags,
                        Size |-> Len(enc.out), SlotContent |-> enc.out]]

NewContainerKeySlot(alg, flags, rootKey, slotKey, nonce) ==
    LET enc == AESGCMEncryptDirect(slotKey, rootKey, nonce)
    IN  IF alg >= SlotKeyAlgEnd
            THEN [err |-> "ErrUnsupportedSlotAlgo", slot |-> NoSlot]
        ELSE IF Len(rootKey) = 0 \/ Len(slotKey) = 0
            THEN [err |-> "ErrParameterMissing", slot |-> NoSlot]
        ELSE IF Len(slotKey) # SlotKeySize(alg)
            THEN [err |-> "ErrKeySizeInvalid", slot |-> NoSlot]
        ELSE IF enc.err # "nil"
            THEN [err |-> enc.err, slot |-> NoSlot]
        ELSE IF Len(enc.out) > MaxSlotContent
            THEN [err |-> "ErrSlotContentTooLarge", slot |-> NoSlot]
        ELSE [err |-> "nil",
              slot |-> [SlotKeyAlgorithm |-> alg, Flags |-> flags,
                        Size |-> Len(enc.out), SlotContent |-> enc.out]]

\* ContainerKeySlot.Unseal
SlotUnseal(slot, slotkey) ==
    IF slot.SlotKeyAlgorithm >= SlotKeyAlgEnd
        THEN [err |-> "ErrUnsupportedSlotAlgo", out |-> <<>>]
    ELSE IF Len(slotkey) = 0
        THEN [err |-> "ErrParameterMissing", out |-> <<>>]
    ELSE AESGCMDecryptDirect(slotkey, slot.SlotContent)

\* ContainerKeySlot.Destroy: flags |= 0x8000, size zeroed, the algorithm set
\* to the invalid sentinel, the content wiped and let go, so that size is
\* the length of the content: WriteHeader after a removal returns no error
\* in TestFileWrapperMultiSlot2, and containerWriteSlot compares the two.
SlotDestroy(slot) ==
    [SlotKeyAlgorithm |-> SlotKeyAlgEnd,
     Flags |-> IF (slot.Flags \div SlotFlagDestroyed) % 2 = 1
               THEN slot.Flags ELSE slot.Flags + SlotFlagDestroyed,
     Size |-> 0,
     SlotContent |-> <<>>]

\* ContainerKeySlot.Info(index): the index, the algorithm and an id computed
\* from the content.
SlotInfo(slot, index) ==
    [Alg |-> slot.SlotKeyAlgorithm, Id |-> Digest(slot.SlotContent),
     Index |-> index]

(***************************************************************************)
(* internal/container/file_header.go: the header codec.                    *)
(***************************************************************************)
\* The error of io.ReadFull / binary.Read that finds avail bytes where it
\* needs more.
ShortRead(avail) == IF avail <= 0 THEN "EOF" ELSE "ErrUnexpectedEOF"

containerWriteSlot(slot) ==
    IF slot.Size # Len(slot.SlotContent) % 65536
        THEN [err |-> "ErrSlotSizeMismatch", out |-> <<>>]
    ELSE [err |-> "nil",
          out |-> BE16(slot.SlotKeyAlgorithm) \o BE16(slot.Flags)
                  \o BE16(slot.Size) \o slot.SlotContent]

\* The loop over header.Slots of WriteContainerFileHeader for the slots lo to
\* hi (1-based), computed half by half: the first slot that fails ends the
\* loop with its error, otherwise the slots are written one after the other.
RECURSIVE WriteSlotRange(_, _, _)
WriteSlotRange(slots, lo, hi) ==
    IF lo > hi THEN [err |-> "nil", out |-> <<>>]
    ELSE IF lo = hi THEN containerWriteSlot(slots[lo])
    ELSE CHOOSE b \in
           {IF left.err # "nil" THEN left
            ELSE CHOOSE c \in
                   {IF right.err # "nil" THEN right
                    ELSE [err |-> "nil", out |-> left.out \o right.out] :
                    right \in {WriteSlotRange(slots, (lo + hi) \div 2 + 1, hi)}} : TRUE :
            left \in {WriteSlotRange(slots, lo, (lo + hi) \div 2)}} : TRUE

\* The loop over header.Slots of WriteContainerFileHeader, from slot i on.
WriteSlots(slots, i) == WriteSlotRange(slots, i, Len(slots))

\* WriteContainerFileHeader without its padding.
WriteContainerFileHeaderNoPadding(header) ==
    LET nslots == Len(header.Slots)
        body == WriteSlots(header.Slots, 1)
        buffer == FileMagicNumber
                  \o <<header.VersionMajor, header.VersionMinor>>
                  \o BE16(header.Flags) \o BE16(header.Algorithm)
                  \o <<nslots % 256>> \o body.out
    IN  IF nslots = 0 THEN [err |-> "ErrEmptySlotContent", out |-> <<>>]
        ELSE IF nslots > MaxHeaderSlots THEN [err |-> "ErrSlotTooMuch", out |-> <<>>]
        ELSE IF body.err # "nil" THEN [err |-> body.err, out |-> <<>>]
        ELSE IF Len(buffer) > HeaderRegionSize
            THEN [err |-> "ErrProducedHeaderTooBig", out |-> <<>>]
        ELSE [err |-> "nil", out |-> buffer]

\* WriteContainerFileHeader without the limit of the header region.
WriteContainerFileHeaderNoSizeCheck(header) ==
    LET nslots == Len(header.Slots)
        body == WriteSlots(header.Slots, 1)
        buffer == FileMagicNumber
                  \o <<header.VersionMajor, header.VersionMinor>>
                  \o BE16(header.Flags) \o BE16(header.Algorithm)
                  \o <<nslots % 256>> \o body.out
    IN  IF nslots = 0 THEN [err |-> "ErrEmptySlotContent", out |-> <<>>]
        ELSE IF nslots > MaxHeaderSlots THEN [err |-> "ErrSlotTooMuch", out |-> <<>>]
        ELSE IF body.err # "nil" THEN [err |-> body.err, out |-> <<>>]
        ELSE [err |-> "nil",
              out |-> buffer \o Zeros(IF Len(buffer) > HeaderRegionSize THEN 0
                                      ELSE HeaderRegionSize - Len(buffer))]

\* WriteContainerFileHeader: out is what reaches the writer (nothing on error).
WriteContainerFileHeader(header) ==
    LET nslots == Len(header.Slots)
        body == WriteSlots(header.Slots, 1)
        buffer == FileMagicNumber
                  \o <<header.VersionMajor, header.VersionMinor>>
                  \o BE16(header.Flags) \o BE16(header.Algorithm)
                  \o <<nslots % 256>> \o body.out
    IN  IF nslots = 0 THEN [err |-> "ErrEmptySlotContent", out |-> <<>>]
        ELSE IF nslots > MaxHeaderSlots THEN [err |-> "ErrSlotTooMuch", out |-> <<>>]
        ELSE IF body.err # "nil" THEN [err |-> body.err, out |-> <<>>]
        ELSE IF Len(buffer) > HeaderRegionSize
            THEN [err |-> "ErrProducedHeaderTooBig", out |-> <<>>]
        ELSE [err |-> "nil",
              out |-> buffer \o Zeros(HeaderRegionSize - Len(buffer))]

\* containerReadSlot on the scoped reader, off bytes of data consumed so far.
containerReadSlot(data, off) ==
    LET n == Len(data)
        alg == ReadBE16(data, off)
        flags == ReadBE16(data, off + 2)
        size == ReadBE16(data, off + 4)
    IN  IF n - off < 2 THEN [err |-> ShortRead(n - off), off |-> off, slot |-> NoSlot]
        ELSE IF alg >= SlotKeyAlgEnd
            THEN [err |-> "ErrUnsupportedSlotAlgo", off |-> off, slot |-> NoSlot]
        ELSE IF n - (off + 2) < 2
            THEN [err |-> ShortRead(n - (off + 2)), off |-> off, slot |-> NoSlot]
        ELSE IF n - (off + 4) < 2
            THEN [err |-> ShortRead(n - (off + 4)), off |-> off, slot |-> NoSlot]
        ELSE IF size > 0 /\ n - (off + 6) < size
            THEN [err |-> ShortRead(n - (off + 6)), off |-> off, slot |-> NoSlot]
        ELSE [err |-> "nil", off |-> off + 6 + size,
              slot |-> [SlotKeyAlgorithm |-> alg, Flags |-> flags, Size |-> size,
                        SlotContent |-> Slice(data, off + 6, off + 6 + size)]]

\* The loop of ParseContainerFileHeader reading k more slots from offset off,
\* computed half by half: the second half starts where the first one ended,
\* and the first slot that fails ends the loop with its error.
RECURSIVE ReadSlots(_, _, _)
ReadSlots(data, off, k) ==
    IF k = 0 THEN [err |-> "nil", slots |-> <<>>, off |-> off]
    ELSE IF k = 1
        THEN CHOOSE b \in
               {IF r.err # "nil" THEN [err |-> r.err, slots |-> <<>>, off |-> off]
                ELSE [err |-> "nil", slots |-> <<r.slot>>, off |-> r.off] :
                r \in {containerReadSlot(data, off)}} : TRUE
    ELSE CHOOSE b \in
           {IF left.err # "nil" THEN left
            ELSE CHOOSE c \in
                   {IF right.err # "nil" THEN right
                    ELSE [err |-> "nil", slots |-> left.slots \o right.slots,
                          off |-> right.off] :
                    right \in {ReadSlots(data, left.off, k - k \div 2)}} : TRUE :
            left \in {ReadSlots(data, off, k \div 2)}} : TRUE

NoHeader == [VersionMajor |-> 0, VersionMinor |-> 0, Flags |-> 0,
             Algorithm |-> 0, Slots |-> <<>>]

\* ParseContainerFileHeader that looks at the major version only.
ParseContainerFileHeaderMajorOnly(stream) ==
    LET data == Slice(stream, 0, HeaderRegionSize)
        alg == ReadBE16(data, 8)
        nslots == data[11]
        body == ReadSlots(data, 11, nslots)
    IN  IF Len(stream) < HeaderRegionSize
            THEN [err |-> ShortRead(Len(stream)), header |-> NoHeader]
        ELSE IF Slice(data, 0, 4) # FileMagicNumber
            THEN [err |-> "ErrInvalidFileHeader", header |-> NoHeader]
        ELSE IF data[5] # 1
            THEN [err |-> "ErrUnsupportedVersion", header |-> NoHeader]
        ELSE IF alg >= EncAlgEnd
            THEN [err |-> "ErrUnsupportedEncAlgo", header |-> NoHeader]
        ELSE IF nslots = 0
            THEN [err |-> "ErrEmptySlotContent", header |-> NoHeader]
        ELSE IF body.err # "nil"
            THEN [err |-> body.err, header |-> NoHeader]
        ELSE [err |-> "nil",
              header |-> [VersionMajor |-> data[5], VersionMinor |-> data[6],
                          Flags |-> ReadBE16(data, 6), Algorithm |-> alg,
                          Slots |-> body.slots]]

\* ParseContainerFileHeader on a reader that yields the bytes of stream.
ParseContainerFileHeader(stream) ==
    LET data == Slice(stream, 0, HeaderRegionSize)
        alg == ReadBE16(data, 8)
        nslots == data[11]
        body == ReadSlots(data, 11, nslots)
    IN  IF Len(stream) < HeaderRegionSize
            THEN [err |-> ShortRead(Len(stream)), header |-> NoHeader]
        ELSE IF Slice(data, 0, 4) # FileMagicNumber
            THEN [err |-> "ErrInvalidFileHeader", header |-> NoHeader]
        ELSE IF data[5] # 1 \/ data[6] # 0
            THEN [err |-> "ErrUnsupportedVersion", header |-> NoHeader]
        ELSE IF alg >= EncAlgEnd
            THEN [err |-> "ErrUnsupportedEncAlgo", header |-> NoHeader]
        ELSE IF nslots = 0
            THEN [err |-> "ErrEmptySlotContent", header |-> NoHeader]
        ELSE IF body.err # "nil"
            THEN [err |-> body.err, header |-> NoHeader]
        ELSE [err |-> "nil",
              header |-> [VersionMajor |-> data[5], VersionMinor |-> data[6],
                          Flags |-> ReadBE16(data, 6), Algorithm |-> alg,
                          Slots |-> body.slots]]

(***************************************************************************)
(* internal/cipher/utils.go: key derivation.                               *)
(***************************************************************************)
\* hkdf.New(sha256.New, masterKey, salt, "key-<i>") read for size bytes.
HKDFRead(masterKey, salt, i, size) ==
    [j \in 1..size |->
        (masterKey[((j - 1) % Len(masterKey)) + 1]
         + 5 * salt[((j - 1) % Len(salt)) + 1] + 17 * i + j) % 256]

\* A derivation that accepts an empty master key.
DeriveKeysFromMasterKeyExAnyKey(masterKey, salt, keySizes) ==
    LET mk == IF Len(masterKey) = 0 THEN <<0>> ELSE masterKey
    IN  [err |-> "nil",
         keys |-> [i \in 1..Len(keySizes) |-> HKDFRead(mk, salt, i - 1, keySizes[i])]]

DeriveKeysFromMasterKeyEx(masterKey, salt, keySizes) ==
    IF Len(masterKey) = 0 THEN [err |-> "ErrInvalidLength", keys |-> <<>>]
    ELSE IF \E i \in 1..Len(keySizes) :
                keySizes[i] <= 0 \/ keySizes[i] > 255 * Sha256Size
        THEN [err |-> "ErrInvalidLength", keys |-> <<>>]
    ELSE [err |-> "nil",
          keys |-> [i \in 1..Len(keySizes) |->
                        HKDFRead(masterKey, salt, i - 1, keySizes[i])]]

\* DeriveKeysFromMasterKey: the salt is drawn at random (the argument).
DeriveKeysFromMasterKey(masterKey, keySizes, salt) ==
    IF Len(masterKey) = 0 THEN [err |-> "ErrInvalidLength", keys |-> <<>>, salt |-> <<>>]
    ELSE LET r == DeriveKeysFromMasterKeyEx(masterKey, salt, keySizes)
         IN  [err |-> r.err, keys |-> r.keys, salt |-> salt]

(***************************************************************************)
(* chunk bytes, and (0, EOF) once the data is used up.  A source that      *)
(* fails has SrcFault as the last element of its data: once the bytes       *)
(* before it are used up, every Read returns (0, ErrSource).                *)
(***************************************************************************)
SrcFault == 256
\* A source over a file that was closed has SrcClosed there: every Read
\* returns (0, os.ErrClosed).  A bufio.Reader hands out what its buffer holds
\* and fills the buffer from the file once it is empty: SrcBreak stands
\* where the buffer ends, the bytes after it are still in the file.
SrcClosed == 257
SrcBreak == 258
SrcMarks(data) == {i \in 1..Len(data) : data[i] >= SrcFault}
\* The bytes a Read can take: those before the first mark.
SrcAvail(data) ==
    IF SrcMarks(data) = {} THEN Len(data)
    ELSE (CHOOSE i \in SrcMarks(data) : \A j \in SrcMarks(data) : i <= j) - 1
\* The source as a Read finds it: an empty buffer is filled.
SrcFill(data) ==
    IF Len(data) > 0 /\ data[1] = SrcBreak THEN Slice(data, 1, Len(data))
    ELSE data

\* A Read of n bytes on the source SrcFill left.
SrcRead(data, chunk, n) ==
    IF Len(data) = 0 THEN [n |-> 0, err |-> "EOF"]
    ELSE IF data[1] = SrcFault THEN [n |-> 0, err |-> "ErrSource"]
    ELSE IF data[1] = SrcClosed THEN [n |-> 0, err |-> "ErrClosed"]
    ELSE [n |-> Min(Min(n, chunk), SrcAvail(data)), err |-> "nil"]

(***************************************************************************)
(* internal/io/tail_reader.go, the version with a read head and a fill     *)
(* head over one buffer.                                                   *)
(* queue holds the bytes queue[0:fillHead] of the Go array; queueCap is    *)
(* its capacity.                                                           *)
(***************************************************************************)
NewTailReader(data, chunk, size) ==
    [impl |-> "ring", data |-> data, chunk |-> chunk, buf |-> <<>>, size |-> size,
     readEOF |-> FALSE, queue |-> <<>>,
     queueCap |-> Max(size, 3 * 4096), readHead |-> 0, fillHead |-> 0]

buffered(tr) == tr.fillHead - tr.readHead - tr.size

unsplit(tr) ==
    IF Len(tr.buf) > 0 /\ tr.fillHead + Len(tr.buf) < tr.queueCap
    THEN [tr EXCEPT !.queue = Slice(tr.queue, 0, tr.fillHead) \o tr.buf,
                    !.fillHead = tr.fillHead + Len(tr.buf)]
    ELSE tr

slideBuffer(tr) ==
    IF tr.readHead > 0
    THEN [tr EXCEPT !.queue = Slice(tr.queue, tr.readHead, tr.fillHead),
                    !.fillHead = tr.fillHead - tr.readHead,
                    !.readHead = 0]
    ELSE tr

\* Below, CHOOSE r \in {F(x) : x \in {e}} : TRUE is F(e) with e computed once
\* and held in x, as Go holds a result in a local variable.

\* One pass of the for loop of TailReader.Read; out is p[0:copied].  err is
\* nil when the loop goes on.
TailReadStep(tr, out, outSize) ==
    LET d == IF tr.readEOF THEN tr.data ELSE SrcFill(tr.data)
        r == IF tr.readEOF THEN [n |-> 0, err |-> "nil"]
             ELSE SrcRead(d, tr.chunk, tr.queueCap - tr.fillHead)
        t1 == [tr EXCEPT !.queue = tr.queue \o Slice(d, 0, r.n),
                         !.data = Slice(d, r.n, Len(d)),
                         !.fillHead = tr.fillHead + r.n,
                         !.readEOF = tr.readEOF \/ r.err = "EOF"]
        end == t1.fillHead - t1.size
        n == IF t1.readHead < end
             THEN Min(outSize - Len(out), end - t1.readHead) ELSE 0
        t2 == [t1 EXCEPT !.readHead = t1.readHead + n]
        out2 == out \o Slice(t1.queue, t1.readHead, t1.readHead + n)
        t3 == IF t2.fillHead = t2.queueCap THEN slideBuffer(t2) ELSE t2
    IN  IF r.err # "nil" /\ r.err # "EOF"
            THEN [tr |-> t1, out |-> out, err |-> r.err]
        ELSE IF r.n = 0 /\ r.err = "nil" /\ n = 0 /\ ~tr.readEOF /\ t3 = t1
            THEN [tr |-> t1, out |-> out, err |-> "hang"]
        ELSE [tr |-> t3, out |-> out2, err |-> "nil"]

\* The for loop of TailReader.Read.
RECURSIVE TailReadLoop(_, _, _)
TailReadLoop(tr, out, outSize) ==
    IF ~(Len(out) < outSize /\ (~tr.readEOF \/ buffered(tr) > 0))
    THEN [tr |-> tr, out |-> out, err |-> "nil"]
    ELSE CHOOSE l \in {IF s.err # "nil" THEN s
                       ELSE TailReadLoop(s.tr, s.out, outSize) :
                       s \in {TailReadStep(tr, out, outSize)}} : TRUE

\* What Read returns after the loop l.
TailReadEnd(l) ==
    LET tr == l.tr
    IN  IF l.err # "nil" THEN l
        ELSE IF buffered(tr) = 0 /\ Len(l.out) = 0
            THEN [tr |-> tr, out |-> <<>>,
                  err |-> IF tr.readEOF THEN "EOF" ELSE "nil"]
        ELSE IF tr.fillHead < tr.size
            THEN [tr |-> tr, out |-> l.out, err |-> "panic"]
        ELSE [tr |-> [tr EXCEPT
                        !.buf = Slice(tr.queue, tr.fillHead - tr.size, tr.fillHead),
                        !.queue = Slice(tr.queue, 0, tr.fillHead - tr.size),
                        !.fillHead = tr.fillHead - tr.size],
              out |-> l.out, err |-> "nil"]

\* TailReader.Read(p) with len(p) = outSize: the reader after the call, the
\* bytes copied to p and the error.
TailRead(tr0, outSize) ==
    CHOOSE r \in {TailReadEnd(l) :
                  l \in {TailReadLoop(tu, <<>>, outSize) :
                         tu \in {unsplit(ts) : ts \in {slideBuffer(tr0)}}}} : TRUE

\* io.Copy(io.Discard, tr): io.Discard reads into a buffer of
\* discardBufferSize bytes until Read returns an error; a Read that never
\* returns ("hang") or panics ends it as well.  fuel bounds the number of
\* calls and is more than a source of Len(data) bytes needs.
RECURSIVE TailDrain(_, _)
TailDrain(tr, fuel) ==
    CHOOSE d \in {IF fuel = 0 \/ r.err # "nil" THEN [tr |-> r.tr, err |-> r.err]
                  ELSE TailDrain(r.tr, fuel - 1) :
                  r \in {TailRead(tr, discardBufferSize)}} : TRUE

\* What Tail returns after the drain d: a Read that panicked or never
\* returned is the outcome of Tail as well.
TailReaderTailEnd(d) ==
    IF d.err = "panic" \/ d.err = "hang" THEN [err |-> d.err, out |-> <<>>]
    ELSE IF Len(d.tr.buf) < d.tr.size
        THEN [err |-> "ErrUnexpectedEOF", out |-> <<>>]
    ELSE [err |-> "nil", out |-> d.tr.buf]

\* TailReader.Tail
TailReaderTail(tr0) ==
    CHOOSE t \in {TailReaderTailEnd(d) :
                  d \in {IF tr0.readEOF THEN [tr |-> tr0, err |-> "EOF"]
                         ELSE TailDrain(tr0, Len(tr0.data) + 2)}} : TRUE

(***************************************************************************)
(* internal/io/tail_reader.go, the version that appends to buf and moves   *)
(* the excess to queue.  The record has the fields of the other version so *)
(* that a caller can hold either; readHead and fillHead are not used.      *)
(***************************************************************************)
AppendNewTailReader(data, chunk, size) ==
    [impl |-> "append", data |-> data, chunk |-> chunk, buf |-> <<>>,
     size |-> size, readEOF |-> FALSE, queue |-> <<>>,
     queueCap |-> 0, readHead |-> 0, fillHead |-> 0]

\* One pass of the for loop of Read: fill from the underlying reader.
AppendFillStep(tr) ==
    LET d == SrcFill(tr.data)
        r == SrcRead(d, tr.chunk, Max(3 * tr.size, 4096))
        b == tr.buf \o Slice(d, 0, r.n)
        split == Len(b) > tr.size
    IN  [tr EXCEPT
           !.data = Slice(d, r.n, Len(d)),
           !.queue = IF split THEN tr.queue \o Slice(b, 0, Len(b) - tr.size)
                     ELSE tr.queue,
           !.buf = IF split THEN Slice(b, Len(b) - tr.size, Len(b)) ELSE b,
           !.readEOF = (r.err = "EOF")]

\* The for loop of Read; err is the error of the source that ended it, if
\* one did.
RECURSIVE AppendFill(_, _)
AppendFill(tr, outSize) ==
    IF ~(Len(tr.queue) < outSize /\ ~tr.readEOF) THEN [tr |-> tr, err |-> "nil"]
    ELSE CHOOSE f \in
           {IF r.err # "nil" /\ r.err # "EOF"
            THEN [tr |-> AppendFillStep(tr), err |-> r.err]
            ELSE AppendFill(AppendFillStep(tr), outSize) :
            r \in {SrcRead(SrcFill(tr.data), tr.chunk,
                            Max(3 * tr.size, 4096))}} : TRUE

\* What Read returns after the loop f.
AppendTailReadEnd(f, outSize) ==
    LET tr == f.tr
        n == Min(outSize, Len(tr.queue))
    IN  IF f.err # "nil" THEN [tr |-> tr, out |-> <<>>, err |-> f.err]
        ELSE IF Len(tr.queue) = 0
            THEN [tr |-> tr, out |-> <<>>,
                  err |-> IF tr.readEOF THEN "EOF" ELSE "nil"]
        ELSE [tr |-> [tr EXCEPT !.queue = Slice(tr.queue, n, Len(tr.queue))],
              out |-> Slice(tr.queue, 0, n), err |-> "nil"]

AppendTailRead(tr0, outSize) ==
    CHOOSE r \in {AppendTailReadEnd(f, outSize) :
                  f \in {AppendFill(tr0, outSize)}} : TRUE

\* io.Copy(io.Discard, tr), as above.
RECURSIVE AppendTailDrain(_, _)
AppendTailDrain(tr, fuel) ==
    CHOOSE d \in {IF fuel = 0 \/ r.err # "nil" THEN [tr |-> r.tr, err |-> r.err]
                  ELSE AppendTailDrain(r.tr, fuel - 1) :
                  r \in {AppendTailRead(tr, discardBufferSize)}} : TRUE

AppendTailReaderTail(tr0) ==
    CHOOSE t \in {IF Len(d.tr.buf) < d.tr.size
                      THEN [err |-> "ErrUnexpectedEOF", out |-> <<>>]
                  ELSE [err |-> "nil", out |-> d.tr.buf] :
                  d \in {IF tr0.readEOF THEN [tr |-> tr0, err |-> "EOF"]
                         ELSE AppendTailDrain(tr0, Len(tr0.data) + 2)}} : TRUE

\* The two versions of internal/io/tail_reader.go behind _io.NewTailReader.
TailReaderImpls == {"append", "ring"}
ioNewTailReader(impl, data, chunk, size) ==
    IF impl = "ring" THEN NewTailReader(data, chunk, size)
    ELSE AppendNewTailReader(data, chunk, size)
ioTailRead(tr, outSize) ==
    IF tr.impl = "ring" THEN TailRead(tr, outSize) ELSE AppendTailRead(tr, outSize)
ioTail(tr) ==
    IF tr.impl = "ring" THEN TailReaderTail(tr) ELSE AppendTailReaderTail(tr)
\* The reader as Tail leaves it: read to the end unless it was at EOF.
ioTailDrained(tr) ==
    IF tr.readEOF THEN tr
    ELSE IF tr.impl = "ring" THEN TailDrain(tr, Len(tr.data) + 2).tr
    ELSE AppendTailDrain(tr, Len(tr.data) + 2).tr

(***************************************************************************)
(* internal/cipher/aes_ctr.go: the authenticated AES-CTR stream.           *)
(***************************************************************************)
aesCTRNewStream(key, iv) ==
    IF AESVerifyKeySize(key) # "nil" THEN AESVerifyKeySize(key)
    ELSE IF Len(iv) # AESBlockSize THEN "ErrIVMissingOrInvalid"
    ELSE "nil"

\* XORKeyStreamApply from a reader over plaintext to a writer: the loop
\* reads bufSize bytes at a time; pos bytes were processed before.
RECURSIVE XORKeyStreamApplyBytes(_, _, _, _, _)
XORKeyStreamApplyBytes(key, iv, data, pos, bufSize) ==
    LET r == SrcRead(data, bufSize, bufSize)
    IN  IF r.err = "EOF" THEN <<>>
        ELSE XORKeyStream(key, iv, pos, Slice(data, 0, r.n))
             \o XORKeyStreamApplyBytes(key, iv, Slice(data, r.n, Len(data)),
                                       pos + r.n, bufSize)

\* AESCTRStreamEncryptAuthenticatedEx without its first test.
AESCTRStreamEncryptAuthenticatedExNoReuseCheck(key, iv, authKey, plaintext) ==
    LET ct == XORKeyStreamApplyBytes(key, iv, plaintext, 0, streamBufferSize)
    IN  IF aesCTRNewStream(key, iv) # "nil"
            THEN [err |-> aesCTRNewStream(key, iv), out |-> <<>>]
        ELSE [err |-> "nil", out |-> ct \o KeyedTag(authKey, iv \o ct, Sha256Size)]

\* AESCTRStreamEncryptAuthenticatedEx: out is what reaches the ciphertext
\* writer.  bytes.Equal takes a nil key for an empty one.
AESCTRStreamEncryptAuthenticatedEx(key, iv, authKey, plaintext) ==
    LET ct == XORKeyStreamApplyBytes(key, iv, plaintext, 0, streamBufferSize)
    IN  IF (IF key = None THEN <<>> ELSE key) = authKey
            THEN [err |-> "ErrAuthenticationKeyReused", out |-> <<>>]
        ELSE IF aesCTRNewStream(key, iv) # "nil"
            THEN [err |-> aesCTRNewStream(key, iv), out |-> <<>>]
        ELSE [err |-> "nil", out |-> ct \o KeyedTag(authKey, iv \o ct, Sha256Size)]

\* One Read of XORKeyStreamApply from io.TeeReader(tailReader, h) and the
\* write to the plaintext writer: seen is what the HMAC was fed, out what the
\* writer received.
DecryptStep(key, iv, tr, seen, out) ==
    CHOOSE s \in {[tr |-> r.tr, seen |-> seen \o r.out,
                   out |-> out \o XORKeyStream(key, iv, Len(seen), r.out),
                   err |-> IF r.err = "nil" /\ Len(r.out) = 0 THEN "hang"
                           ELSE r.err] :
                  r \in {ioTailRead(tr, streamBufferSize)}} : TRUE

\* The loop of XORKeyStreamApply: it ends without error at EOF.
RECURSIVE DecryptLoop(_, _, _, _, _)
DecryptLoop(key, iv, tr, seen, out) ==
    CHOOSE l \in {IF s.err = "EOF" THEN [s EXCEPT !.err = "nil"]
                  ELSE IF s.err # "nil" THEN s
                  ELSE DecryptLoop(key, iv, s.tr, s.seen, s.out) :
                  s \in {DecryptStep(key, iv, tr, seen, out)}} : TRUE

\* The end of AESCTRStreamDecryptAuthenticatedEx: the tag t of Tail against
\* the HMAC of what the loop l read.
DecryptVerify(iv, authKey, l, t) ==
    IF l.err # "nil" THEN [err |-> l.err, out |-> l.out]
    ELSE IF t.err # "nil" THEN [err |-> t.err, out |-> l.out]
    ELSE IF t.out # KeyedTag(authKey, iv \o l.seen, Sha256Size)
        THEN [err |-> "ErrAuthenticationFailed", out |-> l.out]
    ELSE [err |-> "nil", out |-> l.out]

\* AESCTRStreamDecryptAuthenticatedEx reading ciphertext from a reader over
\* data (chunk bytes a Read at most), built with version impl of the tail
\* reader: out is what reaches the plaintext writer.
AESCTRStreamDecryptAuthenticatedEx(key, iv, authKey, data, chunk, impl) ==
    IF (IF key = None THEN <<>> ELSE key) = authKey
        THEN [err |-> "ErrAuthenticationKeyReused", out |-> <<>>]
    ELSE IF aesCTRNewStream(key, iv) # "nil"
        THEN [err |-> aesCTRNewStream(key, iv), out |-> <<>>]
    ELSE CHOOSE r \in
           {DecryptVerify(iv, authKey, l, ioTail(l.tr)) :
            l \in {DecryptLoop(key, iv,
                               ioNewTailReader(impl, data, chunk, Sha256Size),
                               <<>>, <<>>)}} : TRUE

(***************************************************************************)
(* Inputs of the model.                                                    *)
(***************************************************************************)
\* Slot keys of the right size (16 bytes), and two that are not.
SlotKeyIds == {1, 2}
SlotKey(id) == [j \in 1..16 |-> (16 * id + j) % 256]
GoodKeys == {SlotKey(id) : id \in SlotKeyIds}
BadKeys == {<<>>, [j \in 1..8 |-> 9]}
KeyInputs == GoodKeys \cup BadKeys
SlotAlgInputs == {SlotKeyAlgAESGCM128, SlotKeyAlgEnd}
PayloadAlgs == {EncAlgAESCTR128, EncAlgAESCTR256}
\* Outcomes of the random generator: root keys, GCM nonces, (salt, IV) pairs.
RootKeyDraws == {1}
RootKeyBytes(d) == [j \in 1..RootKeySize |-> (40 * d + 3 * j) % 256]
NonceDraws == {1}
NonceBytes(d) == [j \in 1..GCMNonceSize |-> (7 * d + j) % 256]
StreamDraws == {1}
SaltBytes(d) == [j \in 1..Sha256Size |-> (90 * d + j) % 256]
IVBytes(d) == [j \in 1..AESBlockSize |-> (33 * d + 2 * j) % 256]
PlainOfLen(n) == [i \in 1..n |-> 64 + i]
Plaintexts == {PlainOfLen(n) : n \in 0..MaxPlainLen}
RemoveIndexes == (0 - 1)..MaxSlots
\* len(p) of a Read on the stream of AsDecryptionStream.
StreamReadSizes == {1, streamBufferSize}
\* Where a byte of the stored stream is changed (offset into ciphertext and
\* tag), and by how much.
TamperOffsets == 0..(MaxPlainLen + Sha256Size - 1)
TamperDeltas == {1, 128, 255}

(***************************************************************************)
(* State: one container file on disk, the ContainerFile object that the    *)
(* caller holds and the stream AsDecryptionStream returned last.  A        *)
(* container opened or created on the path takes the place of the one the  *)
(* caller held; a stream of the earlier one goes on reading from its file. *)
(***************************************************************************)
VARIABLES
    file,       \* the bytes of the backing file on disk
    handle,     \* f.file: "rw" (created), "ro" (os.Open) or "closed"
    header,     \* f.header
    rootKey,    \* f.rootKey; <<>> when nil or empty
    err,        \* what the last call returned ("nil" for no error)
    out,        \* what the last call wrote to its io.Writer (None: no writer)
    origRoot,   \* history: the root key generated at creation
    plain,      \* history: the plaintext of the last successful EncryptStream
    keyOf,      \* history: the slot key each entry of header.Slots was created with
    diskKeyOf,  \* history: the same for the slots of the header on disk
    stream,     \* the stream of AsDecryptionStream the caller holds: its tail
                \* reader (data: what the bufio.Reader holds unread), key, iv,
                \* bytes delivered, its file and the offset of that file
    tr,         \* a TailReader under test, with the bytes its source still holds
    src,        \* the bytes the source of tr was created with
    got,        \* the bytes the Read calls on tr have delivered so far
    rerr,       \* what the last Read on tr returned
    tailOut,    \* what Tail on tr returned, error and bytes (NoTail before)
    parsed,     \* what ParseContainerFileHeader returned last, error and header
    cipherArgs, \* key, iv, authKey and text handed to the stream functions
    twin        \* the other version of TailReader run beside tr on the same
                \* source: reader, bytes delivered, last error, result of Tail

containerVars == <<file, handle, header, rootKey, err, out, origRoot, plain,
                   keyOf, diskKeyOf, stream>>
auxVars == <<tr, src, got, rerr, tailOut, parsed, cipherArgs, twin>>
vars == <<containerVars, auxVars>>

\* (*os.File).WriteAt after Seek(off): bytes before off are kept (a hole is
\* zero-filled), bytes after the written range are kept.
WriteAt(f, off, data) ==
    LET end == off + Len(data)
        before == IF Len(f) >= off THEN SubSeq(f, 1, off)
                  ELSE f \o Zeros(off - Len(f))
        after == IF Len(f) > end THEN SubSeq(f, end + 1, Len(f)) ELSE <<>>
    IN  before \o data \o after

\* What a reader positioned at off yields.
ReadFrom(f, off) == IF Len(f) <= off THEN <<>> ELSE Slice(f, off, Len(f))

\* The caller holds no stream.
NoStream == <<>>

\* The model follows a stream made on a container of MaxStreamSlots slots at
\* most, for MaxStreamReads calls of Read and for MaxStreamCalls calls on
\* containers; at the next call on a container the caller lets the stream
\* go.
StreamPos == IF stream = NoStream THEN 0 ELSE stream[1].pos

\* The stream after a call on the container that left the offset of f.file
\* at newpos.
StreamAfter(newpos) ==
    IF stream = NoStream THEN NoStream
    ELSE IF stream[1].calls >= MaxStreamCalls THEN NoStream
    ELSE <<[stream[1] EXCEPT !.calls = @ + 1,
                             !.pos = IF stream[1].of = "f" THEN newpos ELSE @]>>

\* The stream after a call that does not touch the file.
StreamKept == StreamAfter(StreamPos)

\* The stream after the caller took another container in place of f: the
\* file of the stream stays as f left it.
StreamDetached ==
    IF stream = NoStream THEN NoStream
    ELSE IF stream[1].calls >= MaxStreamCalls THEN NoStream
    ELSE <<[stream[1] EXCEPT
              !.calls = @ + 1,
              !.of = IF @ # "f" THEN @
                     ELSE IF handle = "closed" THEN "closed" ELSE "open"]>>

\* Where the first fill of a bufio.Reader of bufferSize bytes at the payload
\* leaves the offset of the file, and where a reader that read to the end.
FirstFillPos ==
    containerCiphertextOffset
        + Min(bufferSize, Len(ReadFrom(file, containerCiphertextOffset)))
EndPos == Max(containerCiphertextOffset, Len(file))

\* ParseContainerFileHeader was not called yet.
NoParse == [err |-> "none", header |-> NoHeader]

\* Tail was not called yet.
NoTail == [err |-> "none", out |-> <<>>]

\* No second tail reader runs beside tr.
NoTwin ==
    [tr |-> AppendNewTailReader(<<>>, 1, 0), got |-> <<>>, rerr |-> "nil",
     tailOut |-> NoTail]

\* No tail reader is under test and no header was parsed on its own.
IdleAux ==
    /\ tr = AppendNewTailReader(<<>>, 1, 0)
    /\ src = <<>>
    /\ got = <<>>
    /\ rerr = "nil"
    /\ tailOut = NoTail
    /\ parsed = NoParse
    /\ cipherArgs = [key |-> <<>>, iv |-> <<>>, authKey |-> <<>>, text |-> <<>>]
    /\ twin = NoTwin

\* NewContainerFileWithHandle on an empty file, the root key drawn at random.
Init ==
    /\ file = <<>>
    /\ handle = "rw"
    /\ \E alg \in PayloadAlgs :
         header = [VersionMajor |-> VersionMajor, VersionMinor |-> VersionMinor,
                   Flags |-> 0, Algorithm |-> alg, Slots |-> <<>>]
    /\ \E d \in RootKeyDraws : rootKey = RootKeyBytes(d) /\ origRoot = rootKey
    /\ err = "nil"
    /\ out = None
    /\ plain = None
    /\ keyOf = <<>>
    /\ diskKeyOf = <<>>
    /\ stream = NoStream
    /\ IdleAux

\* ContainerFile.GetSlots: one info for each entry of f.header.Slots.
GetSlots == [i \in 1..Len(header.Slots) |-> SlotInfo(header.Slots[i], i - 1)]

\* The loop of ContainerFile.findMatchingSlot over the slots lo to hi
\* (1-based), computed half by half: the first slot of the algorithm that the
\* key unseals ends the loop; index is Go's 0-based index, -1 when nothing
\* matches.
RECURSIVE findMatchingSlotRange(_, _, _, _, _)
findMatchingSlotRange(slots, alg, slotKey, lo, hi) ==
    IF lo > hi THEN [rootKey |-> <<>>, index |-> 0 - 1]
    ELSE IF lo = hi
        THEN CHOOSE m \in
               {IF slots[lo].SlotKeyAlgorithm = alg /\ u.err = "nil"
                THEN [rootKey |-> u.out, index |-> lo - 1]
                ELSE [rootKey |-> <<>>, index |-> 0 - 1] :
                u \in {SlotUnseal(slots[lo], slotKey)}} : TRUE
    ELSE CHOOSE m \in
           {IF left.index # 0 - 1 THEN left
            ELSE findMatchingSlotRange(slots, alg, slotKey,
                                       (lo + hi) \div 2 + 1, hi) :
            left \in {findMatchingSlotRange(slots, alg, slotKey, lo,
                                            (lo + hi) \div 2)}} : TRUE

\* ContainerFile.findMatchingSlot, from slot i (1-based) on.
findMatchingSlotFrom(slots, alg, slotKey, i) ==
    findMatchingSlotRange(slots, alg, slotKey, i, Len(slots))

\* A findMatchingSlot that gives up after the first slot.
findMatchingSlotFirstOnly(slots, alg, slotKey) ==
    IF Len(slots) = 0 THEN [rootKey |-> <<>>, index |-> 0 - 1]
    ELSE findMatchingSlotFrom(<<slots[1]>>, alg, slotKey, 1)

findMatchingSlot(slots, alg, slotKey) == findMatchingSlotFrom(slots, alg, slotKey, 1)

(***************************************************************************)
(* The methods of ContainerFile.  For each method an operator gives what   *)
(* a call in the current state returns and the fields it assigns; the      *)
(* action is that call.                                                    *)
(***************************************************************************)
\* A Seal that returns without dropping the root key.
SealCallKeepsKey ==
    IF Len(header.Slots) = 0
    THEN [err |-> "ErrNoSlots", rootKey |-> rootKey]
    ELSE [err |-> "nil", rootKey |-> rootKey]

\* ContainerFile.Seal
SealCall ==
    IF Len(header.Slots) = 0
    THEN [err |-> "ErrNoSlots", rootKey |-> rootKey]
    ELSE [err |-> "nil", rootKey |-> <<>>]

Seal ==
    /\ err' = SealCall.err
    /\ rootKey' = SealCall.rootKey
    /\ out' = None
    /\ stream' = StreamKept
    /\ UNCHANGED <<auxVars, file, handle, header, origRoot, plain, keyOf, diskKeyOf>>

\* ContainerFile.Unseal
\* An Unseal that does not look at the state first.
UnsealCallNoStateCheck(alg, slotKey) ==
    LET m == findMatchingSlot(header.Slots, alg, slotKey)
    IN  IF Len(m.rootKey) # 0
        THEN [err |-> "nil", rootKey |-> m.rootKey, Slots |-> header.Slots]
        ELSE [err |-> "ErrRootKeyUnsealFailed", rootKey |-> rootKey,
              Slots |-> header.Slots]

UnsealCall(alg, slotKey) ==
    LET m == findMatchingSlot(header.Slots, alg, slotKey)
    IN  IF Len(rootKey) # 0
        THEN [err |-> "ErrRootKeyAlreadyUnsealed", rootKey |-> rootKey,
              Slots |-> header.Slots]
        ELSE IF Len(m.rootKey) # 0
        THEN [err |-> "nil", rootKey |-> m.rootKey, Slots |-> header.Slots]
        ELSE [err |-> "ErrRootKeyUnsealFailed", rootKey |-> rootKey,
              Slots |-> header.Slots]

Unseal(alg, slotKey) ==
    LET c == UnsealCall(alg, slotKey)
    IN  /\ err' = c.err
        /\ rootKey' = c.rootKey
        /\ header' = [header EXCEPT !.Slots = c.Slots]
        /\ out' = None
        /\ stream' = StreamKept
        /\ UNCHANGED <<auxVars, file, handle, origRoot, plain, keyOf, diskKeyOf>>

\* An AddKeySlot without the check of the seal state.
AddKeySlotCallNoSealCheck(alg, slotKey, nonce) ==
    LET m == findMatchingSlot(header.Slots, alg, slotKey)
        s == NewContainerKeySlot(alg, 0, rootKey, slotKey, nonce)
    IN  IF m.index # 0 - 1
        THEN [err |-> "ErrSlotDuplicated", Slots |-> header.Slots]
        ELSE IF s.err # "nil"
        THEN [err |-> s.err, Slots |-> header.Slots]
        ELSE [err |-> "nil", Slots |-> Append(header.Slots, s.slot)]

\* An AddKeySlot without the search for a slot of the same key.
AddKeySlotCallNoDuplicateCheck(alg, slotKey, nonce) ==
    LET s == NewContainerKeySlot(alg, 0, rootKey, slotKey, nonce)
    IN  IF Len(rootKey) = 0
        THEN [err |-> "ErrRootKeySealed", Slots |-> header.Slots]
        ELSE IF s.err # "nil"
        THEN [err |-> s.err, Slots |-> header.Slots]
        ELSE [err |-> "nil", Slots |-> Append(header.Slots, s.slot)]

\* ContainerFile.AddKeySlot; nonce is the random nonce of the AES-GCM wrap.
AddKeySlotCall(alg, slotKey, nonce) ==
    LET m == findMatchingSlot(header.Slots, alg, slotKey)
        s == NewContainerKeySlot(alg, 0, rootKey, slotKey, nonce)
    IN  IF Len(rootKey) = 0
        THEN [err |-> "ErrRootKeySealed", Slots |-> header.Slots]
        ELSE IF m.index # 0 - 1
        THEN [err |-> "ErrSlotDuplicated", Slots |-> header.Slots]
        ELSE IF s.err # "nil"
        THEN [err |-> s.err, Slots |-> header.Slots]
        ELSE [err |-> "nil", Slots |-> Append(header.Slots, s.slot)]

\* The model stops appending at MaxSlots slots.
AddKeySlot(alg, slotKey, nonce) ==
    LET c == AddKeySlotCall(alg, slotKey, nonce)
    IN  /\ Len(c.Slots) <= MaxSlots
        /\ err' = c.err
        /\ header' = [header EXCEPT !.Slots = c.Slots]
        /\ keyOf' = IF Len(c.Slots) > Len(header.Slots)
                    THEN Append(keyOf, slotKey) ELSE keyOf
        /\ out' = None
        /\ stream' = StreamKept
        /\ UNCHANGED <<auxVars, file, handle, rootKey, origRoot, plain, diskKeyOf>>

\* ContainerFile.RemoveKeySlotByIndex; index is a Go int.  A negative index
\* passes both checks and the slice access panics.
RemoveKeySlotByIndexCall(index) ==
    IF Len(header.Slots) < 2
    THEN [err |-> "ErrSlotInvalidRemove", Slots |-> header.Slots]
    ELSE IF index >= Len(header.Slots)
    THEN [err |-> "ErrSlotInvalidRemove", Slots |-> header.Slots]
    ELSE IF index < 0
    THEN [err |-> "panic", Slots |-> header.Slots]
    ELSE [err |-> "nil",
          Slots |-> [header.Slots EXCEPT
                       ![index + 1] = SlotDestroy(header.Slots[index + 1])]]

RemoveKeySlotByIndex(index) ==
    /\ err' = RemoveKeySlotByIndexCall(index).err
    /\ header' = [header EXCEPT !.Slots = RemoveKeySlotByIndexCall(index).Slots]
    /\ out' = None
    /\ stream' = StreamKept
    /\ UNCHANGED <<auxVars, file, handle, rootKey, origRoot, plain, keyOf, diskKeyOf>>

\* ContainerFile.WriteHeader: file is the backing file after the call, pos
\* the offset of f.file.  Seek comes first and fails on a closed file.
WriteHeaderCall ==
    LET w == WriteContainerFileHeader(header)
    IN  IF handle = "closed"
        THEN [err |-> "ErrClosed", file |-> file, pos |-> StreamPos]
        ELSE IF w.err # "nil" THEN [err |-> w.err, file |-> file, pos |-> 0]
        ELSE IF handle = "ro" THEN [err |-> "ErrBadFd", file |-> file, pos |-> 0]
        ELSE [err |-> "nil", file |-> WriteAt(file, 0, w.out),
              pos |-> Len(w.out)]

WriteHeader ==
    LET c == WriteHeaderCall
    IN  /\ err' = c.err
        /\ file' = c.file
        /\ diskKeyOf' = IF c.err = "nil" THEN keyOf ELSE diskKeyOf
        /\ out' = None
        /\ stream' = StreamAfter(c.pos)
        /\ UNCHANGED <<auxVars, handle, header, rootKey, origRoot, plain, keyOf>>

\* ContainerFile.EncryptStream reading plaintext from the reader; salt and iv
\* are the random draws of DeriveKeysFromMasterKey and GenerateAESIV.  KeySize
\* panics on an algorithm that is none of the two.
EncryptStreamCall(plaintext, salt, iv) ==
    LET d == DeriveKeysFromMasterKey(rootKey,
                 <<EncKeySize(header.Algorithm), authKeySize>>, salt)
        e == AESCTRStreamEncryptAuthenticatedEx(d.keys[1], iv, d.keys[2], plaintext)
    IN  IF handle = "closed" THEN [err |-> "ErrClosed", file |-> file]
        ELSE IF header.Algorithm >= EncAlgEnd
        THEN [err |-> "panic", file |-> file]
        ELSE IF d.err # "nil" THEN [err |-> d.err, file |-> file]
        ELSE IF e.err # "nil" THEN [err |-> e.err, file |-> file]
        ELSE IF handle = "ro" THEN [err |-> "ErrBadFd", file |-> file]
        ELSE [err |-> "nil",
              file |-> WriteAt(file, containerCiphertextOffset,
                               d.salt \o iv \o e.out)]

\* The offset of f.file after EncryptStream returned err: behind what was
\* written, at the payload when nothing was, untouched when Seek failed.
EncryptStreamPos(plaintext, err0) ==
    IF err0 = "ErrClosed" THEN StreamPos
    ELSE IF err0 = "nil"
        THEN containerCiphertextOffset + Sha256Size + AESBlockSize
                 + Len(plaintext) + Sha256Size
    ELSE containerCiphertextOffset

EncryptStream(plaintext, salt, iv) ==
    LET c == EncryptStreamCall(plaintext, salt, iv)
    IN  /\ err' = c.err
        /\ file' = c.file
        /\ plain' = IF c.err = "nil" THEN plaintext ELSE plain
        /\ out' = None
        /\ stream' = StreamAfter(EncryptStreamPos(plaintext, c.err))
        /\ UNCHANGED <<auxVars, handle, header, rootKey, origRoot, keyOf, diskKeyOf>>

\* ContainerFile.DecryptStream in a build with version impl of the tail
\* reader; out is what the writer received.
DecryptStreamCall(impl) ==
    LET data == ReadFrom(file, containerCiphertextOffset)
        salt == Slice(data, 0, Sha256Size)
        iv == Slice(data, Sha256Size, Sha256Size + AESBlockSize)
        rest == Slice(data, Sha256Size + AESBlockSize, Len(data))
        d == DeriveKeysFromMasterKeyEx(rootKey, salt,
                 <<EncKeySize(header.Algorithm), authKeySize>>)
    IN  IF handle = "closed" THEN [err |-> "ErrClosed", out |-> <<>>]
        ELSE IF Len(data) < Sha256Size
        THEN [err |-> ShortRead(Len(data)), out |-> <<>>]
        ELSE IF Len(data) - Sha256Size < AESBlockSize
        THEN [err |-> ShortRead(Len(data) - Sha256Size), out |-> <<>>]
        ELSE IF header.Algorithm >= EncAlgEnd
        THEN [err |-> "panic", out |-> <<>>]
        ELSE IF d.err # "nil"
        THEN [err |-> d.err, out |-> <<>>]
        ELSE AESCTRStreamDecryptAuthenticatedEx(d.keys[1], iv, d.keys[2],
                                                rest, bufferSize, impl)

\* The offset of f.file after DecryptStream returned err: the loop and Tail
\* read the file to its end, a call that ended before them made the first
\* fill of the buffer at most.
DecryptStreamPos(err0) ==
    IF err0 = "ErrClosed" THEN StreamPos
    ELSE IF err0 \in {"nil", "ErrAuthenticationFailed"} THEN EndPos
    ELSE FirstFillPos

DecryptStream(impl) ==
    LET c == DecryptStreamCall(impl)
    IN  /\ err' = c.err
        /\ out' = c.out
        /\ stream' = StreamAfter(DecryptStreamPos(c.err))
        /\ UNCHANGED <<auxVars, file, handle, header, rootKey, origRoot, plain,
                       keyOf, diskKeyOf>>

\* ContainerFile.Close: closing the file again is an error of the file.
Close ==
    /\ err' = IF handle = "closed" THEN "ErrClosed" ELSE "nil"
    /\ handle' = "closed"
    /\ out' = None
    /\ stream' = StreamKept
    /\ UNCHANGED <<auxVars, file, header, rootKey, origRoot, plain, keyOf, diskKeyOf>>

\* OpenContainerFile on the path of the file: os.Open gives a read-only
\* handle of its own, OpenContainerFileWithHandle parses the header.  The
\* object returned takes the place of the one the caller held, closed or
\* not.  On a parse error no object is returned and the caller keeps what it
\* had.
OpenContainerFile ==
    LET p == ParseContainerFileHeader(file)
    IN  /\ IF p.err # "nil"
           THEN /\ err' = p.err
                /\ stream' = StreamKept
                /\ UNCHANGED <<handle, header, rootKey, keyOf>>
           ELSE /\ err' = "nil"
                /\ handle' = "ro"
                /\ header' = p.header
                /\ rootKey' = <<>>
                /\ keyOf' = diskKeyOf
                /\ stream' = StreamDetached
        /\ out' = None
        /\ UNCHANGED <<auxVars, file, origRoot, plain, diskKeyOf>>

\* cipher.NewAESCTRStreamReader(reader, key, iv, closer), as the
\* specification and TestAESCTRCipherStreaming describe it: a lazy reader
\* over the plaintext of what reader yields, no tag compared.  Nothing is
\* read before the first Read.
NewAESCTRStreamReader(reader, key, iv) ==
    IF aesCTRNewStream(key, iv) # "nil"
        THEN [err |-> aesCTRNewStream(key, iv), stream |-> NoStream]
    ELSE [err |-> "nil",
          stream |-> <<[tr |-> reader, key |-> key, iv |-> iv, n |-> 0]>>]

\* Read(p) of the stream s with len(p) = outSize, its tail reader over
\* source: what the tail reader delivers, decrypted at the place in the key
\* stream the stream has reached.
AESCTRStreamReaderRead(s, source, outSize) ==
    CHOOSE c \in {[tr |-> r.tr, n |-> s.n + Len(r.out), err |-> r.err,
                   out |-> XORKeyStream(s.key, s.iv, s.n, r.out)] :
                  r \in {ioTailRead([s.tr EXCEPT !.data = source], outSize)}} :
        TRUE

\* ContainerFile.AsDecryptionStream in a build with version impl of the tail
\* reader: the key is derived alone, the stream takes the tail reader over
\* the buffered file.  Reading salt and IV fills the buffer of the
\* bufio.Reader once; what it holds behind them is the data of the tail
\* reader.
AsDecryptionStreamCall(impl) ==
    LET data == ReadFrom(file, containerCiphertextOffset)
        salt == Slice(data, 0, Sha256Size)
        iv == Slice(data, Sha256Size, Sha256Size + AESBlockSize)
        held == Slice(data, Sha256Size + AESBlockSize,
                      Min(bufferSize, Len(data)))
        d == DeriveKeysFromMasterKeyEx(rootKey, salt,
                 <<EncKeySize(header.Algorithm)>>)
    IN  IF handle = "closed" THEN [err |-> "ErrClosed", stream |-> NoStream]
        ELSE IF Len(data) < Sha256Size
        THEN [err |-> ShortRead(Len(data)), stream |-> NoStream]
        ELSE IF Len(data) - Sha256Size < AESBlockSize
        THEN [err |-> ShortRead(Len(data) - Sha256Size), stream |-> NoStream]
        ELSE IF header.Algorithm >= EncAlgEnd
        THEN [err |-> "panic", stream |-> NoStream]
        ELSE IF d.err # "nil"
        THEN [err |-> d.err, stream |-> NoStream]
        ELSE NewAESCTRStreamReader(
                 ioNewTailReader(impl, held, bufferSize, Sha256Size),
                 d.keys[1], iv)

\* The call alone: no byte of the stream is read.  The stream returned takes
\* the place of the one the caller held; after an error the caller keeps
\* what it had.  On a container of more than MaxStreamSlots slots the caller
\* lets the stream go unread.
AsDecryptionStream(impl) ==
    LET c == AsDecryptionStreamCall(impl)
    IN  /\ err' = c.err
        /\ out' = None
        /\ stream' = IF c.err = "ErrClosed" THEN StreamKept
                     ELSE IF c.err # "nil" THEN StreamAfter(FirstFillPos)
                     ELSE IF Len(header.Slots) > MaxStreamSlots THEN NoStream
                     ELSE <<[tr |-> c.stream[1].tr, key |-> c.stream[1].key,
                             iv |-> c.stream[1].iv, n |-> 0,
                             of |-> "f", pos |-> FirstFillPos,
                             reads |-> 0, calls |-> 0]>>
        /\ UNCHANGED <<auxVars, file, handle, header, rootKey, origRoot, plain,
                       keyOf, diskKeyOf>>

\* What the file of the stream still holds behind the offset, as the fills
\* of the bufio.Reader will take it: bufferSize bytes a fill at most.
RECURSIVE FilePieces(_)
FilePieces(rest) ==
    IF Len(rest) = 0 THEN <<>>
    ELSE <<SrcBreak>> \o Slice(rest, 0, Min(bufferSize, Len(rest)))
         \o FilePieces(Slice(rest, Min(bufferSize, Len(rest)), Len(rest)))

\* The file of the stream is closed: f.file while the caller holds the
\* container of the stream, else as that container was left.
StreamFileClosed ==
    IF stream[1].of = "f" THEN handle = "closed" ELSE stream[1].of = "closed"

\* The source of the tail reader of the stream: what the bufio.Reader holds,
\* then the file from its offset.
StreamSource ==
    stream[1].tr.data
        \o (IF StreamFileClosed THEN <<SrcClosed>>
            ELSE FilePieces(ReadFrom(file, stream[1].pos)))

SrcBreaks(data) == Cardinality({i \in SrcMarks(data) : data[i] = SrcBreak})

\* Read(p) on the stream with len(p) = outSize; out is p[0:n].  Every fill
\* the read made moved the offset of the file; what the last fill brought
\* and the read left is held by the bufio.Reader.
StreamRead(outSize) ==
    /\ stream # NoStream
    /\ stream[1].reads < MaxStreamReads
    /\ \E c \in {AESCTRStreamReaderRead(stream[1], StreamSource, outSize)} :
         /\ err' = c.err
         /\ out' = c.out
         /\ stream' =
              <<[stream[1] EXCEPT
                   !.tr = [c.tr EXCEPT
                             !.data = Slice(c.tr.data, 0, SrcAvail(c.tr.data))],
                   !.n = c.n,
                   !.reads = @ + 1,
                   !.pos = IF StreamFileClosed THEN @
                           ELSE Min(Max(@, Len(file)),
                                    @ + bufferSize
                                          * (SrcBreaks(StreamSource)
                                               - SrcBreaks(c.tr.data)))]>>
    /\ UNCHANGED <<auxVars, file, handle, header, rootKey, origRoot, plain,
                   keyOf, diskKeyOf>>

\* Close of the stream: its closer is the container that made it, and
\* ContainerFile.Close closes the file of that container.
StreamClose ==
    /\ stream # NoStream
    /\ err' = IF StreamFileClosed THEN "ErrClosed" ELSE "nil"
    /\ handle' = IF stream[1].of = "f" THEN "closed" ELSE handle
    /\ stream' = <<[stream[1] EXCEPT !.of = IF @ = "f" THEN @ ELSE "closed"]>>
    /\ out' = None
    /\ UNCHANGED <<auxVars, file, header, rootKey, origRoot, plain, keyOf,
                   diskKeyOf>>

\* NewContainerFile on the path of the file: os.Create empties the file,
\* under a container that is open on it as well; the new object has a header
\* without slots and a root key drawn anew (d is the draw) and takes the
\* place of the one the caller held.  On an algorithm that is not supported
\* no file is created and the caller keeps what it had.
NewContainerFile(alg, d) ==
    /\ IF alg >= EncAlgEnd
       THEN /\ err' = "ErrUnsupportedEncAlgo"
            /\ stream' = StreamKept
            /\ UNCHANGED <<file, handle, header, rootKey, origRoot, plain,
                           keyOf, diskKeyOf>>
       ELSE /\ err' = "nil"
            /\ file' = <<>>
            /\ handle' = "rw"
            /\ header' = [VersionMajor |-> VersionMajor,
                          VersionMinor |-> VersionMinor,
                          Flags |-> 0, Algorithm |-> alg, Slots |-> <<>>]
            /\ rootKey' = RootKeyBytes(d)
            /\ origRoot' = RootKeyBytes(d)
            /\ plain' = None
            /\ keyOf' = <<>>
            /\ diskKeyOf' = <<>>
            /\ stream' = StreamDetached
    /\ out' = None
    /\ UNCHANGED auxVars

\* An EstimateContentSize that forgets the tag.
EstimateContentSizeNoTag ==
    IF handle = "closed" THEN [err |-> "ErrClosed", size |-> 0 - 1]
    ELSE [err |-> "nil", size |-> Len(file) - containerCiphertextOffset - 48]

\* ContainerFile.EstimateContentSize: Stat of the handle, then the size less
\* the header region, salt and IV, and tag.
EstimateContentSize ==
    IF handle = "closed" THEN [err |-> "ErrClosed", size |-> 0 - 1]
    ELSE [err |-> "nil",
          size |-> Len(file) - containerCiphertextOffset - 48 - 32]

Next ==
    \/ Seal
    \/ \E alg \in SlotAlgInputs, k \in KeyInputs : Unseal(alg, k)
    \/ \E alg \in SlotAlgInputs, k \in KeyInputs, d \in NonceDraws :
           AddKeySlot(alg, k, NonceBytes(d))
    \/ \E i \in RemoveIndexes : RemoveKeySlotByIndex(i)
    \/ WriteHeader
    \/ \E pt \in Plaintexts, d \in StreamDraws :
           EncryptStream(pt, SaltBytes(d), IVBytes(d))
    \/ \E impl \in TailReaderImpls : DecryptStream(impl)
    \/ \E impl \in TailReaderImpls : AsDecryptionStream(impl)
    \/ \E n \in StreamReadSizes : StreamRead(n)
    \/ StreamClose
    \/ Close
    \/ OpenContainerFile
    \/ \E alg \in PayloadAlgs \cup {EncAlgEnd}, d \in RootKeyDraws :
           NewContainerFile(alg, d)

Spec == Init /\ [][Next]_vars

(***************************************************************************)
(* A stored payload changed behind the program's back: one container with   *)
(* one slot is written and encrypted, one byte of the ciphertext or of the  *)
(* tag on disk is changed, and DecryptStream reads the file.                *)
(***************************************************************************)
PayloadOffset == containerCiphertextOffset + Sha256Size + AESBlockSize

\* The file holds, byte for byte, what EncryptStream writes for plain.
ValidPayload ==
    /\ handle = "rw" /\ Len(rootKey) # 0 /\ plain # None
    /\ \E d \in StreamDraws :
         EncryptStreamCall(plain, SaltBytes(d), IVBytes(d))
             = [err |-> "nil", file |-> file]

\* Byte off of the ciphertext and tag on disk is changed by delta.
Tamper(off, delta) ==
    /\ ValidPayload
    /\ PayloadOffset + off < Len(file)
    /\ file' = [file EXCEPT ![PayloadOffset + off + 1] = (@ + delta) % 256]
    /\ out' = None
    /\ UNCHANGED <<handle, header, rootKey, err, origRoot, plain, keyOf,
                   diskKeyOf, stream, auxVars>>

NextTamper ==
    \/ /\ Len(header.Slots) = 0
       /\ \E k \in GoodKeys, d \in NonceDraws :
            AddKeySlot(SlotKeyAlgAESGCM128, k, NonceBytes(d))
    \/ /\ Len(header.Slots) = 1 /\ Len(file) = 0
       /\ WriteHeader
    \/ /\ Len(file) = HeaderRegionSize
       /\ \E pt \in Plaintexts, d \in StreamDraws :
            EncryptStream(pt, SaltBytes(d), IVBytes(d))
    \/ \E off \in TamperOffsets, delta \in TamperDeltas : Tamper(off, delta)
    \/ \E impl \in TailReaderImpls : DecryptStream(impl)

SpecTamper == Init /\ [][NextTamper]_vars

(***************************************************************************)
(* The authenticated stream functions called on their own, as the tests of *)
(* internal/cipher call them: the arguments are drawn at the start, err    *)
(* and out hold what the last call returned and wrote.                     *)
(***************************************************************************)
CipherKeys == GoodKeys \cup BadKeys \cup {[j \in 1..32 |-> (7 * j) % 256]}
CipherIVs == {IVBytes(d) : d \in StreamDraws} \cup {<<>>}
SourceChunks == {1, bufferSize}

\* The container of Init, which the specifications below leave alone.
IdleContainer ==
    /\ file = <<>>
    /\ handle = "rw"
    /\ header = [VersionMajor |-> VersionMajor, VersionMinor |-> VersionMinor,
                 Flags |-> 0, Algorithm |-> EncAlgAESCTR128, Slots |-> <<>>]
    /\ \E d \in RootKeyDraws : rootKey = RootKeyBytes(d) /\ origRoot = rootKey
    /\ plain = None
    /\ keyOf = <<>>
    /\ diskKeyOf = <<>>
    /\ stream = NoStream

InitCipher ==
    /\ IdleContainer
    /\ err = "nil"
    /\ out = None
    /\ tr = AppendNewTailReader(<<>>, 1, 0)
    /\ src = <<>>
    /\ got = <<>>
    /\ rerr = "nil"
    /\ tailOut = NoTail
    /\ parsed = NoParse
    /\ twin = NoTwin
    /\ \E k \in CipherKeys \cup {None}, a \in CipherKeys, v \in CipherIVs,
          pt \in Plaintexts :
         cipherArgs = [key |-> k, iv |-> v, authKey |-> a, text |-> pt]

CipherUnchanged ==
    UNCHANGED <<file, handle, header, rootKey, origRoot, plain, keyOf, diskKeyOf, stream,
                tr, src, got, rerr, tailOut, parsed, twin>>

\* AESCTRStreamEncryptAuthenticatedEx(key, iv, authKey, plaintext, ciphertext)
CipherEncrypt ==
    LET r == AESCTRStreamEncryptAuthenticatedEx(cipherArgs.key, cipherArgs.iv,
                                                cipherArgs.authKey, cipherArgs.text)
    IN  /\ err' = r.err
        /\ out' = r.out
        /\ UNCHANGED cipherArgs
        /\ CipherUnchanged

\* AESCTRStreamDecryptAuthenticatedEx(key, iv, authKey, ciphertext, plaintext)
CipherDecrypt(chunk, impl) ==
    LET r == AESCTRStreamDecryptAuthenticatedEx(cipherArgs.key, cipherArgs.iv,
                                                cipherArgs.authKey, cipherArgs.text,
                                                chunk, impl)
    IN  /\ err' = r.err
        /\ out' = r.out
        /\ UNCHANGED cipherArgs
        /\ CipherUnchanged

\* What a successful call wrote becomes the text of the next call.
CipherReadBack ==
    /\ err = "nil" /\ out # None
    /\ Len(cipherArgs.text) <= MaxPlainLen
    /\ cipherArgs' = [cipherArgs EXCEPT !.text = out]
    /\ out' = None
    /\ UNCHANGED err
    /\ CipherUnchanged

NextCipher ==
    \/ CipherEncrypt
    \/ \E chunk \in SourceChunks, impl \in TailReaderImpls : CipherDecrypt(chunk, impl)
    \/ CipherReadBack

SpecCipher == InitCipher /\ [][NextCipher]_vars

(***************************************************************************)
(* A TailReader used on its own, as internal/io/tail_reader_test.go uses   *)
(* it: a consumer calls Read with buffers of its choice, the source hands  *)
(* out its bytes in pieces of its choice, and Tail is called once.         *)
(***************************************************************************)
TailSources == {[i \in 1..n |-> 100 + i] : n \in 0..MaxSrcLen}
TailSizes == 0..MaxTail
ConsumerSizes == {1, 2, bufferSize}
TailChunks == {1, 2, bufferSize}

InitTail ==
    /\ IdleContainer
    /\ err = "nil"
    /\ out = None
    /\ parsed = NoParse
    /\ cipherArgs = [key |-> <<>>, iv |-> <<>>, authKey |-> <<>>, text |-> <<>>]
    /\ twin = NoTwin
    /\ \E impl \in TailReaderImpls, data \in TailSources, n \in TailSizes :
         /\ src = data
         /\ tr = ioNewTailReader(impl, data, 1, n)
    /\ got = <<>>
    /\ rerr = "nil"
    /\ tailOut = NoTail

\* tr.Read(p) with len(p) = outSize, the source handing out at most chunk
\* bytes a call; a panic ends the program.  A consumer may call Read again
\* after EOF; it gives up once it was handed more bytes than the source has.
DoRead(outSize, chunk) ==
    /\ tailOut = NoTail /\ rerr \in {"nil", "EOF"}
    /\ Len(got) <= Len(src)
    /\ \E r \in {ioTailRead([tr EXCEPT !.chunk = chunk], outSize)} :
         /\ tr' = r.tr
         /\ got' = got \o r.out
         /\ rerr' = r.err
    /\ UNCHANGED <<containerVars, src, tailOut, parsed, cipherArgs, twin>>

\* tr.Tail()
DoTail(chunk) ==
    /\ tailOut = NoTail /\ rerr \in {"nil", "EOF"}
    /\ tailOut' = ioTail([tr EXCEPT !.chunk = chunk])
    /\ tr' = IF ioTail([tr EXCEPT !.chunk = chunk]).err = "panic" THEN tr
             ELSE ioTailDrained([tr EXCEPT !.chunk = chunk])
    /\ UNCHANGED <<containerVars, src, got, rerr, parsed, cipherArgs, twin>>

NextTail ==
    \/ \E outSize \in ConsumerSizes, chunk \in TailChunks : DoRead(outSize, chunk)
    \/ \E chunk \in TailChunks : DoTail(chunk)

SpecTail == InitTail /\ [][NextTail]_vars

\* A consumer goes on reading until Read returns an error, as the loop of
\* XORKeyStreamApply and io.Copy do.
SpecTailFair ==
    SpecTail /\ WF_vars(\E outSize \in ConsumerSizes, chunk \in TailChunks :
                          DoRead(outSize, chunk))

(***************************************************************************)
(* A tail reader over a source that fails: after the bytes it holds, every *)
(* Read of the source returns an error that is not io.EOF.  Sources that   *)
(* end are kept beside them.                                                *)
(***************************************************************************)
FailingSources == {data \o <<SrcFault>> : data \in TailSources}

InitTailFault ==
    /\ IdleContainer
    /\ err = "nil"
    /\ out = None
    /\ parsed = NoParse
    /\ cipherArgs = [key |-> <<>>, iv |-> <<>>, authKey |-> <<>>, text |-> <<>>]
    /\ twin = NoTwin
    /\ \E impl \in TailReaderImpls, data \in TailSources \cup FailingSources,
          n \in TailSizes :
         /\ src = data
         /\ tr = ioNewTailReader(impl, data, 1, n)
    /\ got = <<>>
    /\ rerr = "nil"
    /\ tailOut = NoTail

SpecTailFault == InitTailFault /\ [][NextTail]_vars

(***************************************************************************)
(* The two versions of the tail reader side by side: both wrap a source of *)
(* the same bytes with the same N, and every call is made on both with the  *)
(* same arguments.  tr is the version with the read head and the fill head, *)
(* twin the version that appends.                                           *)
(***************************************************************************)
InitPair ==
    /\ IdleContainer
    /\ err = "nil"
    /\ out = None
    /\ parsed = NoParse
    /\ cipherArgs = [key |-> <<>>, iv |-> <<>>, authKey |-> <<>>, text |-> <<>>]
    /\ \E data \in TailSources, n \in TailSizes :
         /\ src = data
         /\ tr = NewTailReader(data, 1, n)
         /\ twin = [tr |-> AppendNewTailReader(data, 1, n), got |-> <<>>,
                    rerr |-> "nil", tailOut |-> NoTail]
    /\ got = <<>>
    /\ rerr = "nil"
    /\ tailOut = NoTail

\* Read(p) with len(p) = outSize on both readers, the sources handing out at
\* most chunk bytes a call.
PairRead(outSize, chunk) ==
    /\ tailOut = NoTail /\ rerr \in {"nil", "EOF"}
    /\ twin.tailOut = NoTail /\ twin.rerr \in {"nil", "EOF"}
    /\ Len(got) <= Len(src)
    /\ \E r \in {TailRead([tr EXCEPT !.chunk = chunk], outSize)},
          a \in {AppendTailRead([twin.tr EXCEPT !.chunk = chunk], outSize)} :
         /\ tr' = r.tr
         /\ got' = got \o r.out
         /\ rerr' = r.err
         /\ twin' = [twin EXCEPT !.tr = a.tr, !.got = @ \o a.out,
                                 !.rerr = a.err]
    /\ UNCHANGED <<containerVars, src, tailOut, parsed, cipherArgs>>

\* Tail() on both readers.
PairTail(chunk) ==
    /\ tailOut = NoTail /\ rerr \in {"nil", "EOF"}
    /\ twin.tailOut = NoTail /\ twin.rerr \in {"nil", "EOF"}
    /\ \E t \in {TailReaderTail([tr EXCEPT !.chunk = chunk])},
          a \in {AppendTailReaderTail([twin.tr EXCEPT !.chunk = chunk])} :
         /\ tailOut' = t
         /\ tr' = IF t.err = "panic" THEN tr
                  ELSE ioTailDrained([tr EXCEPT !.chunk = chunk])
         /\ twin' = [twin EXCEPT
                       !.tr = ioTailDrained([twin.tr EXCEPT !.chunk = chunk]),
                       !.tailOut = a]
    /\ UNCHANGED <<containerVars, src, got, rerr, parsed, cipherArgs>>

NextPair ==
    \/ \E outSize \in ConsumerSizes, chunk \in TailChunks : PairRead(outSize, chunk)
    \/ \E chunk \in TailChunks : PairTail(chunk)

SpecPair == InitPair /\ [][NextPair]_vars

(***************************************************************************)
(* The header codec used on its own, as file_header_test.go uses it: a     *)
(* header is built, WriteContainerFileHeader writes it to a buffer (out)   *)
(* and ParseContainerFileHeader reads the buffer back.                      *)
(***************************************************************************)
HeaderSlotA ==
    NewContainerKeySlot(SlotKeyAlgAESGCM128, 0, RootKeyBytes(1), SlotKey(1),
                        NonceBytes(1)).slot
HeaderSlotB ==
    NewContainerKeySlot(SlotKeyAlgAESGCM128, 258, RootKeyBytes(1), SlotKey(2),
                        NonceBytes(1)).slot
HeaderSlotInputs == {HeaderSlotA, HeaderSlotB, SlotDestroy(HeaderSlotA)}

\* Slot lists of up to MaxSlots slots, and lists of one slot repeated, around
\* the number that fills the header region and around the limit of 255.
RECURSIVE SlotLists(_)
SlotLists(n) ==
    IF n = 0 THEN {<<>>}
    ELSE {Append(l, s) : l \in SlotLists(n - 1), s \in HeaderSlotInputs}
FullHeaderSlots == (HeaderRegionSize - 11) \div (6 + Len(HeaderSlotA.SlotContent))
LongListLengths ==
    {FullHeaderSlots, FullHeaderSlots + 1, MaxHeaderSlots, MaxHeaderSlots + 1}
HeaderSlotLists ==
    UNION {SlotLists(n) : n \in 0..MaxSlots}
        \cup {[i \in 1..n |-> HeaderSlotA] : n \in LongListLengths}
HeaderVersions == {<<VersionMajor, VersionMinor>>, <<2, 0>>}
HeaderFlagInputs == {0, 513}
HeaderAlgInputs == {EncAlgAESCTR128, EncAlgAESCTR256, EncAlgEnd}

InitHeader ==
    /\ file = <<>>
    /\ handle = "rw"
    /\ \E v \in HeaderVersions, fl \in HeaderFlagInputs, alg \in HeaderAlgInputs,
          l \in HeaderSlotLists :
         header = [VersionMajor |-> v[1], VersionMinor |-> v[2], Flags |-> fl,
                   Algorithm |-> alg, Slots |-> l]
    /\ \E d \in RootKeyDraws : rootKey = RootKeyBytes(d) /\ origRoot = rootKey
    /\ err = "nil"
    /\ out = None
    /\ plain = None
    /\ keyOf = <<>>
    /\ diskKeyOf = <<>>
    /\ stream = NoStream
    /\ IdleAux

\* WriteContainerFileHeader(buffer, header)
HeaderWrite ==
    /\ out = None
    /\ \E w \in {WriteContainerFileHeader(header)} :
         /\ err' = w.err
         /\ out' = w.out
    /\ UNCHANGED <<file, handle, header, rootKey, origRoot, plain, keyOf,
                   diskKeyOf, stream, auxVars>>

\* ParseContainerFileHeader(buffer)
HeaderParse ==
    /\ out # None /\ parsed = NoParse
    /\ parsed' = ParseContainerFileHeader(out)
    /\ UNCHANGED <<containerVars, tr, src, got, rerr, tailOut, cipherArgs, twin>>

NextHeader == HeaderWrite \/ HeaderParse

SpecHeader == InitHeader /\ [][NextHeader]_vars

(***************************************************************************)
(* A header changed behind the program's back: a container is written and  *)
(* closed, one byte of the magic or of the version on disk is changed, and *)
(* the file is opened.                                                     *)
(***************************************************************************)
HeaderTamperOffsets == 0..5

\* The header region on disk is, byte for byte, what WriteContainerFileHeader
\* writes for the header in memory.
ValidHeaderOnDisk ==
    /\ Len(file) >= HeaderRegionSize
    /\ WriteContainerFileHeader(header)
         = [err |-> "nil", out |-> Slice(file, 0, HeaderRegionSize)]

\* Byte off of the closed file is changed by delta.
CorruptHeader(off, delta) ==
    /\ handle = "closed"
    /\ ValidHeaderOnDisk
    /\ file' = [file EXCEPT ![off + 1] = (@ + delta) % 256]
    /\ out' = None
    /\ UNCHANGED <<handle, header, rootKey, err, origRoot, plain, keyOf,
                   diskKeyOf, stream, auxVars>>

NextOpen ==
    \/ /\ Len(file) = 0
       /\ \E k \in GoodKeys, d \in NonceDraws :
            AddKeySlot(SlotKeyAlgAESGCM128, k, NonceBytes(d))
    \/ /\ Len(header.Slots) >= 1 /\ Len(file) = 0
       /\ WriteHeader
    \/ /\ Len(file) > 0
       /\ Close
    \/ \E off \in HeaderTamperOffsets, delta \in TamperDeltas :
         CorruptHeader(off, delta)
    \/ OpenContainerFile

SpecOpen == Init /\ [][NextOpen]_vars

(***************************************************************************)
(* The key slot used on its own, as slots_test.go uses it: a root key and  *)
(* a slot key are drawn, NewContainerKeySlot wraps the root key (the slot   *)
(* is kept in header.Slots, its key in keyOf) and Unseal is called on the   *)
(* slot with a key (its result in out and err).                             *)
(***************************************************************************)
SlotRootKeys ==
    {<<>>, <<7>>, [j \in 1..16 |-> (3 * j) % 256], RootKeyBytes(1)}
\* Slot keys: the two of 16 bytes, one that differs from the first in its
\* last byte, one of 32 bytes, one of 8 bytes and the empty one.
SlotKeyNear == [SlotKey(1) EXCEPT ![16] = (@ + 1) % 256]
SlotKeyLong == [j \in 1..32 |-> (5 * j + 1) % 256]
SlotKeyInputs == GoodKeys \cup BadKeys \cup {SlotKeyNear, SlotKeyLong}
SlotFlagInputs == {0, 258, SlotFlagDestroyed}
SlotAlgRange == {SlotKeyAlgAESGCM128, SlotKeyAlgEnd, SlotKeyAlgEnd + 1}
SlotNonceDraws == {1, 2}

InitSlot ==
    /\ file = <<>>
    /\ handle = "rw"
    /\ header = [VersionMajor |-> VersionMajor, VersionMinor |-> VersionMinor,
                 Flags |-> 0, Algorithm |-> EncAlgAESCTR128, Slots |-> <<>>]
    /\ \E rk \in SlotRootKeys : rootKey = rk /\ origRoot = rk
    /\ \E k \in SlotKeyInputs : keyOf = <<k>>
    /\ err = "nil"
    /\ out = None
    /\ plain = None
    /\ diskKeyOf = <<>>
    /\ stream = NoStream
    /\ IdleAux

\* NewContainerKeySlot(alg, flags, rootKey, slotKey)
SlotNew(alg, flags, nonce) ==
    /\ Len(header.Slots) = 0 /\ err = "nil"
    /\ \E r \in {NewContainerKeySlot(alg, flags, rootKey, keyOf[1], nonce)} :
         /\ err' = r.err
         /\ header' = [header EXCEPT
                          !.Slots = IF r.err = "nil" THEN <<r.slot>> ELSE <<>>]
    /\ UNCHANGED <<file, handle, rootKey, out, origRoot, plain, keyOf,
                   diskKeyOf, stream, auxVars>>

\* slot.Unseal(slotkey)
SlotOpen(slotkey) ==
    /\ Len(header.Slots) = 1 /\ out = None
    /\ \E r \in {SlotUnseal(header.Slots[1], slotkey)} :
         /\ err' = r.err
         /\ out' = r.out
    /\ UNCHANGED <<file, handle, header, rootKey, origRoot, plain, keyOf,
                   diskKeyOf, stream, auxVars>>

NextSlot ==
    \/ \E alg \in SlotAlgRange, flags \in SlotFlagInputs, d \in SlotNonceDraws :
         SlotNew(alg, flags, NonceBytes(d))
    \/ \E k \in SlotKeyInputs : SlotOpen(k)

SpecSlot == InitSlot /\ [][NextSlot]_vars

(***************************************************************************)
(* A container that is given key slots one after the other, each under a   *)
(* key of its own, up to the 255 the count byte can hold; at any number of *)
(* slots the header is written, the container closed and the file opened.  *)
(***************************************************************************)
\* The key of the n-th slot: the keys of two slots differ in their first byte.
ManySlotKey(n) == [j \in 1..16 |-> IF j = 1 THEN n % 256 ELSE (3 * j) % 256]

\* AddKeySlot(SlotKeyAlgAESGCM128, key) with the key of the next slot.
AddNextKeySlot ==
    /\ handle = "rw" /\ Len(file) = 0
    /\ Len(header.Slots) < MaxHeaderSlots
    /\ \E c \in {AddKeySlotCall(SlotKeyAlgAESGCM128,
                                ManySlotKey(Len(header.Slots) + 1),
                                NonceBytes(1))} :
         /\ err' = c.err
         /\ header' = [header EXCEPT !.Slots = c.Slots]
         /\ keyOf' = IF Len(c.Slots) > Len(header.Slots)
                     THEN Append(keyOf, ManySlotKey(Len(header.Slots) + 1))
                     ELSE keyOf
    /\ out' = None
    /\ UNCHANGED <<auxVars, file, handle, rootKey, origRoot, plain, diskKeyOf,
                   stream>>

NextMany ==
    \/ AddNextKeySlot
    \/ /\ Len(header.Slots) >= 1 /\ Len(file) = 0 /\ err = "nil"
       /\ WriteHeader
    \/ /\ Len(file) > 0
       /\ Close
    \/ OpenContainerFile

SpecMany == Init /\ [][NextMany]_vars

(***************************************************************************)
(* Vocabulary of the properties.                                           *)
(***************************************************************************)
Sealed == Len(rootKey) = 0
IsOpen == handle # "closed"
Destroyed(slot) == (slot.Flags \div SlotFlagDestroyed) % 2 = 1
Live(slots) == {i \in 1..Len(slots) : ~Destroyed(slots[i])}
Dead(slots) == {i \in 1..Len(slots) : Destroyed(slots[i])}
LiveKeys == {keyOf[i] : i \in Live(header.Slots)}
PayloadRegion(f) == ReadFrom(f, containerCiphertextOffset)
\* The payload region holds the stream of the last EncryptStream and nothing
\* after it.
FreshPayload ==
    /\ plain # None
    /\ Len(file) = containerCiphertextOffset + Sha256Size + AESBlockSize
                   + Len(plain) + Sha256Size
\* What Unseal(alg, k) finds after a reopen of the file f.
ReopenedMatch(f, alg, k) ==
    findMatchingSlot(ParseContainerFileHeader(f).header.Slots, alg, k)
\* Some slot that was not destroyed has algorithm alg and was wrapped with k.
WrappedWith(alg, k) ==
    \E i \in Live(header.Slots) :
        header.Slots[i].SlotKeyAlgorithm = alg /\ keyOf[i] = k
\* NewContainerKeySlot accepts the algorithm and the size of the key.
ValidSlotArgs(alg, k) == alg < SlotKeyAlgEnd /\ Len(k) = SlotKeySize(alg)

\* The history variables follow the slot list and the root key.
HistoryOK ==
    /\ Len(keyOf) = Len(header.Slots)
    /\ ~Sealed => rootKey = origRoot

\* C1: DecryptStream on an unsealed container, created or reopened, whose
\* payload region holds the stream EncryptStream wrote for the plaintext,
\* writes exactly that plaintext and returns no error.
C1_RoundTrip ==
    (IsOpen /\ ~Sealed /\ FreshPayload)
        => \A impl \in TailReaderImpls :
             DecryptStreamCall(impl) = [err |-> "nil", out |-> plain]

\* C2: with two or more slots under distinct keys, Unseal of a sealed
\* container with the key of any of them succeeds and restores the root key
\* generated at creation, and DecryptStream on the unsealed container
\* yields the plaintext.
C2_AnyKeyRestoresRoot ==
    Cardinality(Live(header.Slots)) >= 2
        => /\ Sealed =>
                \A i \in Live(header.Slots) :
                    LET c == UnsealCall(header.Slots[i].SlotKeyAlgorithm, keyOf[i])
                    IN  c.err = "nil" /\ c.rootKey = origRoot
           /\ (IsOpen /\ ~Sealed /\ FreshPayload) =>
                \A impl \in TailReaderImpls : DecryptStreamCall(impl).out = plain

\* A container with two slots under distinct keys was reopened and unsealed,
\* and DecryptStream wrote the plaintext.
C2_Witness ==
    /\ handle = "ro"
    /\ Cardinality(Live(header.Slots)) >= 2
    /\ keyOf[1] # keyOf[2]
    /\ rootKey = origRoot
    /\ plain # None /\ Len(plain) > 0
    /\ out = plain /\ err = "nil"
    /\ stream = NoStream

\* C3: WriteHeader after slots were added or removed leaves the payload
\* region (offset 4096 on) as it was, and the header it leaves on disk lets
\* every key added and not removed unseal the root key after a reopen.
C3_RekeyKeepsPayload ==
    (handle = "rw" /\ Live(header.Slots) # {})
        => /\ PayloadRegion(WriteHeaderCall.file) = PayloadRegion(file)
           /\ \A i \in Live(header.Slots) :
                ReopenedMatch(WriteHeaderCall.file, SlotKeyAlgAESGCM128,
                              keyOf[i]).rootKey = origRoot

\* C4: once a slot was removed, Unseal with its key (not added again since)
\* fails with RootKeyUnsealFailed on the sealed container in memory and
\* finds no slot in the header that WriteHeader leaves on disk; the key of
\* a slot that was not removed unseals in both.
C4_RemovedKeyRejected ==
    Dead(header.Slots) # {}
        => /\ Sealed =>
                /\ \A i \in Dead(header.Slots), alg \in SlotAlgInputs :
                     keyOf[i] \notin LiveKeys
                         => UnsealCall(alg, keyOf[i]).err = "ErrRootKeyUnsealFailed"
                /\ \A i \in Live(header.Slots) :
                     LET c == UnsealCall(SlotKeyAlgAESGCM128, keyOf[i])
                     IN  c.err = "nil" /\ c.rootKey = origRoot
           /\ handle = "rw" =>
                /\ \A i \in Dead(header.Slots), alg \in SlotAlgInputs :
                     keyOf[i] \notin LiveKeys
                         => ReopenedMatch(WriteHeaderCall.file, alg,
                                          keyOf[i]).index = 0 - 1
                /\ \A i \in Live(header.Slots) :
                     ReopenedMatch(WriteHeaderCall.file, SlotKeyAlgAESGCM128,
                                   keyOf[i]).rootKey = origRoot

\* C5: Unseal on an unsealed container returns RootKeyAlreadyUnsealed for
\* every algorithm and key, also a key that matches no slot, and changes
\* neither the root key nor the slots.
C5_UnsealWhileUnsealed ==
    ~Sealed
        => \A alg \in SlotAlgInputs, k \in KeyInputs :
             UnsealCall(alg, k) = [err |-> "ErrRootKeyAlreadyUnsealed",
                                   rootKey |-> rootKey, Slots |-> header.Slots]

\* Unseal was refused on an unsealed container that has a slot.
C5_Witness ==
    /\ err = "ErrRootKeyAlreadyUnsealed"
    /\ rootKey = origRoot
    /\ Len(header.Slots) >= 1

\* C6: Unseal on a sealed container unseals it, to the root key of creation,
\* exactly when a slot of that algorithm was wrapped with the key; otherwise
\* it returns RootKeyUnsealFailed and the container stays sealed; the slots
\* do not change.
C6_UnsealWhileSealed ==
    Sealed
        => \A alg \in SlotAlgInputs, k \in KeyInputs :
             LET c == UnsealCall(alg, k)
             IN  /\ c.Slots = header.Slots
                 /\ IF WrappedWith(alg, k)
                    THEN c.err = "nil" /\ c.rootKey = origRoot
                    ELSE c.err = "ErrRootKeyUnsealFailed" /\ Len(c.rootKey) = 0

\* A reopened container with two slots was unsealed by the last call.
C6_Witness ==
    /\ handle = "ro"
    /\ Len(header.Slots) = 2
    /\ rootKey = origRoot
    /\ err = "nil"
    /\ out = None

\* C7: AddKeySlot on a sealed container returns RootKeySealed and leaves the
\* slots as they were.
C7_AddWhileSealed ==
    Sealed
        => \A alg \in SlotAlgInputs, k \in KeyInputs, d \in NonceDraws :
             AddKeySlotCall(alg, k, NonceBytes(d))
                 = [err |-> "ErrRootKeySealed", Slots |-> header.Slots]

\* AddKeySlot was refused on a container that was opened and not unsealed.
C7_Witness ==
    /\ err = "ErrRootKeySealed"
    /\ Sealed
    /\ handle = "ro"

\* The result c of AddKeySlot(alg, k) is one new slot for (alg, k) after the
\* slots there were.
AppendsOneSlot(c, alg, k) ==
    /\ c.err = "nil"
    /\ Len(c.Slots) = Len(header.Slots) + 1
    /\ SubSeq(c.Slots, 1, Len(header.Slots)) = header.Slots
    /\ c.Slots[Len(c.Slots)].SlotKeyAlgorithm = alg
    /\ ~Destroyed(c.Slots[Len(c.Slots)])
    /\ SlotUnseal(c.Slots[Len(c.Slots)], k) = [err |-> "nil", out |-> rootKey]

\* C8 as stated: AddKeySlot on an unsealed container returns SlotDuplicated
\* and leaves the slots when a slot was created with the same algorithm and
\* key; when none was, it appends exactly one slot and changes no other.
C8_AddOrDuplicate ==
    ~Sealed
        => \A alg \in SlotAlgInputs, k \in KeyInputs, d \in NonceDraws :
             LET c == AddKeySlotCall(alg, k, NonceBytes(d))
             IN  IF WrappedWith(alg, k)
                 THEN c = [err |-> "ErrSlotDuplicated", Slots |-> header.Slots]
                 ELSE AppendsOneSlot(c, alg, k)

\* C8 amended: the same, where the append is for a supported algorithm and a
\* key of its size; for any other algorithm or key AddKeySlot returns an
\* error and leaves the slots.
C8_AddOrDuplicateValid ==
    ~Sealed
        => \A alg \in SlotAlgInputs, k \in KeyInputs, d \in NonceDraws :
             LET c == AddKeySlotCall(alg, k, NonceBytes(d))
             IN  IF WrappedWith(alg, k)
                 THEN c = [err |-> "ErrSlotDuplicated", Slots |-> header.Slots]
                 ELSE IF ValidSlotArgs(alg, k)
                 THEN AppendsOneSlot(c, alg, k)
                 ELSE c.err \notin {"nil", "ErrSlotDuplicated"}
                      /\ c.Slots = header.Slots

\* The second of two slots under distinct keys was appended, and a repeat
\* of its key was then refused.
C8_Witness ==
    /\ err = "ErrSlotDuplicated"
    /\ ~Sealed
    /\ Len(header.Slots) = 2
    /\ Live(header.Slots) = {1, 2}
    /\ keyOf[1] # keyOf[2]

\* C9: RemoveKeySlotByIndex(i) returns InvalidRemove and changes no slot
\* when one slot exists or i designates no slot of the list; otherwise it
\* destroys slot i in place and leaves every other slot as it was.
C9_RemoveByIndex ==
    \A i \in RemoveIndexes :
        LET c == RemoveKeySlotByIndexCall(i)
            n == Len(header.Slots)
        IN  IF n = 1 \/ ~(0 <= i /\ i < n)
            THEN c = [err |-> "ErrSlotInvalidRemove", Slots |-> header.Slots]
            ELSE /\ c.err = "nil"
                 /\ Len(c.Slots) = n
                 /\ Destroyed(c.Slots[i + 1])
                 /\ \A j \in 1..n : j # i + 1 => c.Slots[j] = header.Slots[j]

\* C10: Seal on an unsealed container with at least one slot seals it, the
\* root key gone; Seal on a container with no slot returns NoSlots and the
\* container stays unsealed with the root key it had.
C10_Seal ==
    ~Sealed
        => IF Len(header.Slots) >= 1
           THEN SealCall = [err |-> "nil", rootKey |-> <<>>]
           ELSE SealCall = [err |-> "ErrNoSlots", rootKey |-> rootKey]

\* A created container was sealed by the last call.
C10_Witness ==
    /\ handle = "rw"
    /\ Sealed
    /\ err = "nil"
    /\ out = None
    /\ file = <<>>

\* C11: EncryptStream and DecryptStream on a sealed container (opened and not
\* unsealed, or after Seal) each return an error, change no byte of the file,
\* give the writer nothing, and leave the container sealed.
C11_SealedStreams ==
    [][Sealed
          => /\ \A pt \in Plaintexts, d \in StreamDraws :
                  EncryptStream(pt, SaltBytes(d), IVBytes(d))
                      => err' # "nil" /\ file' = file /\ out' = None /\ Sealed'
             /\ \A impl \in TailReaderImpls :
                  DecryptStream(impl)
                      => err' # "nil" /\ file' = file /\ out' = <<>> /\ Sealed'
      ]_vars

\* A call on a container opened by path and not unsealed, whose file holds a
\* payload, was refused because there is no root key.
C11_Witness ==
    /\ handle = "ro"
    /\ Sealed
    /\ FreshPayload
    /\ err = "ErrInvalidLength"

\* C12: Seal on a container that is already sealed (opened and not unsealed,
\* or sealed before) is rejected with an error and changes nothing.
C12_SealWhileSealed ==
    Sealed
        => SealCall.err # "nil" /\ SealCall.rootKey = rootKey

\* C13: after Close the file handle is released and the container holds no
\* root key.
C13_CloseWipesRootKey ==
    handle = "closed" => Sealed

\* C14: once a single byte of the ciphertext or of the trailing tag of a
\* validly encrypted file was changed, DecryptStream returns
\* AuthenticationFailed.
C14_TamperRejected ==
    (IsOpen /\ ~Sealed /\ FreshPayload /\ ~ValidPayload)
        => \A impl \in TailReaderImpls :
             DecryptStreamCall(impl).err = "ErrAuthenticationFailed"

\* C15: when the encryption key equals the authentication key, the stream
\* encryption and the stream decryption return AuthenticationKeyReused and
\* write no byte to their output.
C15_KeyReuseRejected ==
    cipherArgs.key = cipherArgs.authKey
        => /\ AESCTRStreamEncryptAuthenticatedEx(cipherArgs.key, cipherArgs.iv,
                  cipherArgs.authKey, cipherArgs.text)
                = [err |-> "ErrAuthenticationKeyReused", out |-> <<>>]
           /\ \A chunk \in SourceChunks, impl \in TailReaderImpls :
                AESCTRStreamDecryptAuthenticatedEx(cipherArgs.key, cipherArgs.iv,
                    cipherArgs.authKey, cipherArgs.text, chunk, impl)
                  = [err |-> "ErrAuthenticationKeyReused", out |-> <<>>]
C15_Witness ==
    /\ cipherArgs.key = cipherArgs.authKey /\ Len(cipherArgs.key) = 32
    /\ Len(cipherArgs.iv) = AESBlockSize /\ Len(cipherArgs.text) > 0
    /\ err = "ErrAuthenticationKeyReused" /\ out = <<>>

\* C16: whatever the source, the number N of withheld bytes, the pieces the
\* source hands out and the consumer's buffer sizes: when the source has at
\* least N bytes, Tail returns exactly N bytes and, after Read reported the end,
\* the bytes Read delivered followed by them are the source; when the source
\* has fewer than N bytes, Tail returns UnexpectedEOF.
C16_TailReaderSplits ==
    tailOut # NoTail
        => IF Len(src) >= tr.size
           THEN /\ tailOut.err = "nil"
                /\ Len(tailOut.out) = tr.size
                /\ rerr = "EOF" => got \o tailOut.out = src
           ELSE tailOut.err = "ErrUnexpectedEOF"

\* C17: Read reports the end of the stream only when the source has ended and
\* the bytes before the last N were all delivered; in that situation a Read
\* reports it; and a consumer that goes on reading is eventually told so.
C17_ReadEndOfStream ==
    /\ [](rerr = "EOF"
            => /\ tr.data = <<>>
               /\ got = Slice(src, 0, Max(Len(src) - tr.size, 0)))
    /\ [][(/\ tailOut = NoTail /\ tailOut' = NoTail
           /\ tr.data = <<>> /\ Len(got) >= Len(src) - tr.size)
            => rerr' = "EOF"]_vars
    /\ <>(rerr = "EOF" \/ tailOut # NoTail)

\* The slots of a list that are not destroyed, in order.
NotDestroyed(slot) == ~Destroyed(slot)
LiveSlots(slots) == SelectSeq(slots, NotDestroyed)

\* Bytes the slots lo..hi take in a header: algorithm, flags and size of two
\* bytes each, then the content.
RECURSIVE SlotBytes(_, _, _)
SlotBytes(slots, lo, hi) ==
    IF lo > hi THEN 0
    ELSE IF lo = hi THEN 6 + Len(slots[lo].SlotContent)
    ELSE SlotBytes(slots, lo, (lo + hi) \div 2)
         + SlotBytes(slots, (lo + hi) \div 2 + 1, hi)
\* Bytes of a header before its padding: magic, version, flags, algorithm,
\* slot count, slots.
SerialisedLength(h) == 11 + SlotBytes(h.Slots, 1, Len(h.Slots))

\* C18: the writer leaves the destroyed slots out: for a header of version
\* (1,0) with a valid algorithm and both destroyed and other slots, the slot
\* count written is the number of slots not destroyed and parsing the output
\* gives exactly those, in order.
C18_WriterFiltersDestroyed ==
    LET live == LiveSlots(header.Slots)
        w == WriteContainerFileHeader(header)
    IN  (/\ header.VersionMajor = 1 /\ header.VersionMinor = 0
         /\ header.Algorithm < EncAlgEnd
         /\ Len(live) >= 1 /\ Len(live) < Len(header.Slots))
            => /\ w.err = "nil"
               /\ w.out[11] = Len(live)
               /\ ParseContainerFileHeader(w.out).err = "nil"
               /\ ParseContainerFileHeader(w.out).header.Slots = live

\* C19: a header of version (1,0) with a valid algorithm and at least one
\* slot, none destroyed, that fits in 4096 bytes is written without error, and
\* parsing what was written succeeds and gives the same header: version,
\* flags, algorithm and every slot in order.
C19_HeaderRoundTrip ==
    (/\ header.VersionMajor = 1 /\ header.VersionMinor = 0
     /\ header.Algorithm < EncAlgEnd
     /\ Len(header.Slots) >= 1
     /\ LiveSlots(header.Slots) = header.Slots
     /\ SerialisedLength(header) <= HeaderRegionSize)
        => /\ WriteContainerFileHeader(header).err = "nil"
           /\ ParseContainerFileHeader(WriteContainerFileHeader(header).out)
                = [err |-> "nil", header |-> header]
C19_Witness ==
    /\ out # None /\ err = "nil"
    /\ parsed = [err |-> "nil", header |-> header]
    /\ Len(header.Slots) = FullHeaderSlots
    /\ header.Flags # 0 /\ header.Algorithm = EncAlgAESCTR256

\* C20: WriteContainerFileHeader writes exactly 4096 bytes, the fields and
\* then zeros, or fails and writes nothing; it fails with EmptySlotContent
\* for no slot, with SlotTooMuch for more than 255 slots and with
\* ProducedHeaderTooBig when the fields take more than 4096 bytes.
C20_HeaderWriteAllOrNothing ==
    LET w == WriteContainerFileHeader(header)
        n == Len(header.Slots)
    IN  /\ w.err = "nil"
            => /\ Len(w.out) = HeaderRegionSize
               /\ Slice(w.out, 0, 4) = FileMagicNumber
               /\ w.out[11] = n
               /\ Slice(w.out, SerialisedLength(header), HeaderRegionSize)
                    = Zeros(HeaderRegionSize - SerialisedLength(header))
        /\ w.err # "nil" => w.out = <<>>
        /\ n = 0 => w.err = "ErrEmptySlotContent"
        /\ n > MaxHeaderSlots => w.err = "ErrSlotTooMuch"
        /\ (n >= 1 /\ n <= MaxHeaderSlots
            /\ SerialisedLength(header) > HeaderRegionSize)
            => w.err = "ErrProducedHeaderTooBig"
C20_Witness ==
    /\ Len(header.Slots) = FullHeaderSlots + 1
    /\ err = "ErrProducedHeaderTooBig" /\ out = <<>>

\* The offsets (0-based) below n at which the file differs from the header
\* WriteContainerFileHeader writes for the header in memory.
HeaderDiff(n) ==
    UNION {{off \in 0..(n - 1) : file[off + 1] # w[off + 1]} :
           w \in {WriteContainerFileHeader(header).out}}

\* C21: a file that differs from a valid container in one byte of the magic
\* (offsets 0-3) is refused with InvalidFileHeader, one that differs in one
\* byte of the version (offsets 4-5) with UnsupportedVersion, and no header,
\* hence no container, is returned.
C21_MagicVersionRefused ==
    (/\ handle = "closed" /\ Len(file) >= HeaderRegionSize
     /\ WriteContainerFileHeader(header).err = "nil"
     /\ Cardinality(HeaderDiff(HeaderRegionSize)) = 1)
        => \A off \in HeaderDiff(6) :
             ParseContainerFileHeader(file)
               = [err |-> IF off < 4 THEN "ErrInvalidFileHeader"
                          ELSE "ErrUnsupportedVersion",
                  header |-> NoHeader]
C21_Witness ==
    /\ handle = "closed" /\ Len(file) >= HeaderRegionSize
    /\ WriteContainerFileHeader(header).err = "nil"
    /\ HeaderDiff(HeaderRegionSize) = {5}
    /\ err = "ErrUnsupportedVersion"

\* C22: GetSlots returns infos for the slots that are not destroyed only: no
\* info carries the index of a destroyed slot, and every other slot has an
\* info with its index and algorithm.
C22_GetSlotsSkipsDestroyed ==
    /\ \A j \in 1..Len(GetSlots) :
         GetSlots[j].Index + 1 \in Live(header.Slots)
    /\ \A i \in Live(header.Slots) :
         \E j \in 1..Len(GetSlots) :
             /\ GetSlots[j].Index = i - 1
             /\ GetSlots[j].Alg = header.Slots[i].SlotKeyAlgorithm

\* C23: for every valid algorithm, non-empty root key and slot key of the
\* algorithm's key size, Unseal of the slot NewContainerKeySlot returns, with
\* that slot key, returns the root key, and the slot's Size is the length of
\* its content; NewContainerKeySlot is rejected for an invalid algorithm, a
\* slot key of any other length or an empty root key; Unseal with a
\* different key returns an error.
C23_SlotRoundTrip ==
    \A alg \in SlotAlgRange, flags \in SlotFlagInputs, d \in SlotNonceDraws :
        \E r \in {NewContainerKeySlot(alg, flags, rootKey, keyOf[1],
                                      NonceBytes(d))} :
            IF ValidSlotArgs(alg, keyOf[1]) /\ Len(rootKey) > 0
            THEN /\ r.err = "nil"
                 /\ r.slot.Size = Len(r.slot.SlotContent)
                 /\ SlotUnseal(r.slot, keyOf[1]) = [err |-> "nil", out |-> rootKey]
                 /\ \A k \in SlotKeyInputs \ {keyOf[1]} :
                        SlotUnseal(r.slot, k).err # "nil"
            ELSE r.err # "nil" /\ r.slot = NoSlot

\* A slot was created over a root key and Unseal with its key returned the
\* root key.
C23_Witness ==
    /\ Len(header.Slots) = 1
    /\ header.Slots[1].Size = Len(header.Slots[1].SlotContent)
    /\ Len(rootKey) > 0
    /\ err = "nil"
    /\ out = rootKey

\* What WriteHeader and a reopen of the file give for the container in
\* memory: the error of WriteHeader, and whether the file opens with the
\* slots of the container.
WriteAndReopen ==
    CHOOSE r \in
      {[err |-> c.err, file |-> c.file,
        same |-> c.err = "nil"
                 /\ ParseContainerFileHeader(c.file)
                      = [err |-> "nil", header |-> header]] :
       c \in {WriteHeaderCall}} : TRUE

\* An unsealed container on a new file with n slots added, none removed.
HoldsSlots(n) ==
    /\ handle = "rw" /\ ~Sealed /\ Len(file) = 0
    /\ Len(header.Slots) = n
    /\ Dead(header.Slots) = {}

\* C24 as stated: for every n in 1..255, a container to which n AES-GCM-128
\* slots wrapping the 32-byte root key were added is written by WriteHeader
\* and reopens with all n slots.
C24_EveryCountFits ==
    \A n \in 1..MaxHeaderSlots :
        HoldsSlots(n) => WriteAndReopen.same

\* C24 amended: that holds for every n up to the number of 66-byte slots that
\* fit the header region after its 11 fixed bytes (61); for every larger n
\* up to 255 WriteHeader returns ErrProducedHeaderTooBig and leaves the file.
C24_CountsThatFit ==
    \A n \in 1..MaxHeaderSlots :
        HoldsSlots(n)
            => IF n <= FullHeaderSlots
               THEN WriteAndReopen.same
               ELSE /\ WriteAndReopen.err = "ErrProducedHeaderTooBig"
                    /\ WriteAndReopen.file = file

\* A container of as many slots as fit was written, closed and opened, and
\* has its slots.
C24_Witness ==
    /\ handle = "ro"
    /\ err = "nil"
    /\ Len(header.Slots) = FullHeaderSlots
    /\ \A i \in 1..FullHeaderSlots :
           SlotUnseal(header.Slots[i], ManySlotKey(i)).out = origRoot

\* C25: after WriteHeader and a successful EncryptStream of an n-byte
\* plaintext on a newly created container, the file is exactly
\* 4096 + 32 + 16 + n + 32 bytes long, holding from offset 4096 the salt, the
\* IV, the n bytes of ciphertext and the tag in that order, and
\* EstimateContentSize returns n.
C25_StreamLayout ==
    [][(/\ handle = "rw" /\ Len(file) = HeaderRegionSize
        /\ plain = None /\ plain' # None)
       => /\ \E d \in StreamDraws :
                LET n == Len(plain')
                    o == containerCiphertextOffset
                    ks == DeriveKeysFromMasterKeyEx(rootKey, SaltBytes(d),
                              <<EncKeySize(header.Algorithm), authKeySize>>).keys
                    ct == Slice(file', o + 48, o + 48 + n)
                IN  /\ Len(file') = 4096 + 32 + 16 + n + 32
                    /\ Slice(file', 0, o) = file
                    /\ Slice(file', o, o + 32) = SaltBytes(d)
                    /\ Slice(file', o + 32, o + 48) = IVBytes(d)
                    /\ XORKeyStream(ks[1], IVBytes(d), 0, ct) = plain'
                    /\ Slice(file', o + 48 + n, Len(file'))
                         = KeyedTag(ks[2], IVBytes(d) \o ct, 32)
          /\ EstimateContentSize' = [err |-> "nil", size |-> Len(plain')]]_vars

\* The longest plaintext was encrypted into a new container after its header
\* was written, and the size is estimated as its length.
C25_Witness ==
    /\ handle = "rw"
    /\ err = "nil"
    /\ plain = PlainOfLen(MaxPlainLen)
    /\ Slice(file, 0, HeaderRegionSize) = WriteContainerFileHeader(header).out
    /\ EstimateContentSize.size = MaxPlainLen

\* C26: run side by side on the same source with the same calls, the two
\* versions of the tail reader deliver the same bytes from Read, report the
\* end of the stream at the same point and return the same from Tail; and
\* the version with the read head never delivers a byte unless at least N
\* bytes it has read from the source remain behind that byte.
C26_RingRefinesAppend ==
    /\ got = twin.got
    /\ rerr = twin.rerr
    /\ tailOut = twin.tailOut
    /\ Len(got) > 0 => Len(got) + tr.size <= Len(src) - Len(tr.data)

\* C27: once a slot was added, whatever AddKeySlot and RemoveKeySlotByIndex
\* calls follow, a slot that is not destroyed remains, and its key unseals
\* the root key, so that a Seal can be undone.
C27_LiveSlotRemains ==
    Len(header.Slots) >= 1
        => \E i \in Live(header.Slots) :
             SlotUnseal(header.Slots[i], keyOf[i])
                 = [err |-> "nil", out |-> origRoot]

\* The index in slots of the j-th slot that is not destroyed.
LiveIndex(slots, j) ==
    CHOOSE i \in Live(slots) : Cardinality({k \in Live(slots) : k <= i}) = j

\* C28: after any AddKeySlot and RemoveKeySlotByIndex calls, whenever
\* WriteHeader succeeds the file it leaves is accepted when opened, and the
\* slots read back are the slots in memory that are not destroyed, in order,
\* each unsealed to the root key by the key it was added with.
C28_WrittenHeaderReopens ==
    handle = "rw"
        => \E c \in {WriteHeaderCall} :
             c.err = "nil"
                 => \E p \in {ParseContainerFileHeader(c.file)} :
                      /\ p.err = "nil"
                      /\ p.header.Slots = LiveSlots(header.Slots)
                      /\ \A j \in 1..Len(p.header.Slots) :
                           SlotUnseal(p.header.Slots[j],
                                      keyOf[LiveIndex(header.Slots, j)])
                               = [err |-> "nil", out |-> origRoot]

\* C29: after any number of successful EncryptStream calls on an unsealed
\* container, a later one with a shorter plaintext included, DecryptStream
\* succeeds and writes the plaintext of the last EncryptStream.
C29_LastPlaintextRead ==
    (IsOpen /\ ~Sealed /\ plain # None)
        => \A impl \in TailReaderImpls :
             DecryptStreamCall(impl) = [err |-> "nil", out |-> plain]

\* C30: Tail returns the N withheld bytes only if the wrapped source reached
\* its end: when the source failed with an error that is not EOF, Tail
\* reports an error and does not return the bytes buffered last.
C30_TailNeedsEndOfSource ==
    (tailOut # NoTail /\ tailOut.err = "nil")
        => /\ tr.readEOF
           /\ tr.data = <<>>

====
